---- MODULE Spec2Model ----
(***************************************************************************)
(* Model of the log-subscription example (06-subscribe-logs): the select   *)
(* loop of main and the decoder parseLogEvent, over go-ethereum's abi,     *)
(* common and crypto packages; and of the block query example              *)
(* (02-block-ops): main, fetchBlockWithRetry and fetchBlockRange.          *)
(*                                                                         *)
(* Byte strings are sequences of numbers 0..255.  A topic word / hash is a *)
(* byte string of length 32, an address one of length 20.  A big.Int is    *)
(* its big-endian magnitude without leading zero bytes.                    *)
(***************************************************************************)
EXTENDS Integers, Sequences, FiniteSets, TLC

VARIABLES
    pc,         \* position of main: "idle", "running", "done", "fatal"
    clientOpen, \* the ethclient connection is open
    subActive,  \* the log subscription exists on the connection
    ctxDone,    \* ctx.Done() is closed
    sigCh,      \* content of the buffered signal channel
    subErrCh,   \* content of sub.Err()
    logsCh,     \* records the subscription holds for delivery on logsCh
    arrived,    \* history: every record the node pushed, in arrival order
    stdout,     \* lines written with fmt.Printf / fmt.Println
    stderr,     \* lines written with log.Printf / log.Fatal
    clock,      \* time.Now(), in seconds
    recording,  \* whether arrived/stdout/stderr are retained
    script      \* the scripted feed still to be played (empty: free feed)

VARIABLES
    nowMs,      \* block-ops: milliseconds since the context of main was made
    flags,      \* block-ops: the parsed command-line flags
    retry,      \* block-ops: the frame of fetchBlockWithRetry
    ret,        \* block-ops: what fetchBlockWithRetry returned
    scan,       \* block-ops: the frame of fetchBlockRange
    trace       \* history: ticks received, fetch attempts, sleeps

blockOps == <<nowMs, flags, retry, ret, scan, trace>>

VARIABLES
    regSchema,  \* lookup: the event entries of the ABI JSON
    regDigest,  \* lookup: the topic word 0 looked up
    regMatch,   \* lookup: the name the lookup loop ended with, once it ran
    registry,   \* the abi.ABI that abi.JSON returned, once it did
    decoded     \* history: the output of each call of parseLogEvent

lookup == <<regSchema, regDigest, regMatch, registry, decoded>>

vars == <<pc, clientOpen, subActive, ctxDone, sigCh, subErrCh, logsCh,
          arrived, stdout, stderr, clock, recording, script, blockOps, lookup>>

----------------------------------------------------------------------------
(* Bounds *)

MaxRecords == 2
MaxPending == 2
MaxTime == 1
ScriptNamed == 5
ScriptUnknown == 1
MaxHeight == 3

\* The variables of the block-ops program while that program is not run.
NoFlags == [number |-> 0, rangeStart |-> 0, rangeEnd |-> 0, rateLimit |-> 0]

NoCall == [blockNumber |-> 0, maxRetries |-> 0, i |-> 0, lastErr |-> "",
           caller |-> ""]

NoRet == [block |-> <<>>, err |-> <<>>]

NoTicker == [start |-> 0, d |-> 0, last |-> 0]

NoScan == [start |-> 0, end |-> 0, rateLimit |-> 0, num |-> 0,
           successCount |-> 0, skipCount |-> 0, ticker |-> NoTicker]

NoBlockOps ==
    /\ nowMs = 0
    /\ flags = NoFlags
    /\ retry = NoCall
    /\ ret = NoRet
    /\ scan = NoScan
    /\ trace = <<>>

\* The variables of the lookup when no lookup is made.
NoLookup ==
    /\ regSchema = <<>>
    /\ regDigest = <<>>
    /\ regMatch = <<>>
    /\ registry = <<>>
    /\ decoded = <<>>

----------------------------------------------------------------------------
(* Byte strings, hex and big.Int *)

Zeros(n) == [i \in 1..n |-> 0]

Fill(n, b) == [i \in 1..n |-> b]

HashLength == 32

AddressLength == 20

\* Variant: the high-order 20 bytes are kept.
BytesToAddressHigh(b) ==
    IF Len(b) > AddressLength
    THEN SubSeq(b, 1, AddressLength)
    ELSE b \o Zeros(AddressLength - Len(b))

\* common.BytesToAddress / Address.SetBytes: keep the low-order 20 bytes,
\* left-pad a shorter slice.
BytesToAddress(b) ==
    IF Len(b) > AddressLength
    THEN SubSeq(b, Len(b) - AddressLength + 1, Len(b))
    ELSE Zeros(AddressLength - Len(b)) \o b

RECURSIVE Nibbles(_)
Nibbles(b) ==
    IF b = <<>> THEN <<>>
    ELSE <<Head(b) \div 16, Head(b) % 16>> \o Nibbles(Tail(b))

\* Hash.Hex / Address.Hex / "0x%x": the prefix and two hex digits per byte
\* (digits as numbers 0..15; letter case, hence the address checksum, is
\* not represented).
Hex(b) == <<"0x", Nibbles(b)>>

\* big.Int.SetBytes: big-endian magnitude, leading zero bytes dropped.
RECURSIVE SetBytes(_)
SetBytes(b) ==
    IF b = <<>> THEN <<>>
    ELSE IF Head(b) = 0 THEN SetBytes(Tail(b)) ELSE b

\* nat.divW: quotient and remainder of a magnitude by a small divisor.
RECURSIVE divW(_, _, _, _, _)
divW(b, i, r, q, w) ==
    IF i > Len(b) THEN <<q, r>>
    ELSE LET cur == r * 256 + b[i]
         IN  divW(b, i + 1, cur % w, Append(q, cur \div w), w)

\* nat.itoa converts by chunks: the divisor is a power of ten and each
\* remainder gives that many decimal digits.
ChunkBase == 1000000

ChunkDigits(r) ==
    <<r \div 100000, (r \div 10000) % 10, (r \div 1000) % 10,
      (r \div 100) % 10, (r \div 10) % 10, r % 10>>

RECURSIVE Digits(_, _)
Digits(m, acc) ==
    IF m = <<>> THEN acc
    ELSE LET d == divW(m, 1, 0, <<>>, ChunkBase)
         IN  Digits(SetBytes(d[1]), ChunkDigits(d[2]) \o acc)

\* big.Int.String: the decimal digits of the magnitude, without leading
\* zeros.
BigIntString(m) == IF m = <<>> THEN <<0>> ELSE SetBytes(Digits(m, <<>>))

\* The magnitude fits a small machine integer / its value.
IsSmall(m) == Len(m) <= 2

SmallValue(m) ==
    IF Len(m) = 0 THEN 0
    ELSE IF Len(m) = 1 THEN m[1]
    ELSE m[1] * 256 + m[2]

----------------------------------------------------------------------------
(* abi: types, arguments, events *)

AddressT == [T |-> "AddressTy", Size |-> 20, String |-> "address"]

Uint256T == [T |-> "UintTy", Size |-> 256, String |-> "uint256"]

Int256T == [T |-> "IntTy", Size |-> 256, String |-> "int256"]

BoolT == [T |-> "BoolTy", Size |-> 0, String |-> "bool"]

BytesT == [T |-> "BytesTy", Size |-> 0, String |-> "bytes"]

Bytes32T == [T |-> "FixedBytesTy", Size |-> 32, String |-> "bytes32"]

StringT == [T |-> "StringTy", Size |-> 0, String |-> "string"]

Arg(name, type, indexed) == [Name |-> name, Type |-> type, Indexed |-> indexed]

RECURSIVE JoinTypes(_)
JoinTypes(inputs) ==
    IF inputs = <<>> THEN ""
    ELSE IF Len(inputs) = 1 THEN inputs[1].Type.String
    ELSE inputs[1].Type.String \o "," \o JoinTypes(Tail(inputs))

\* abi.NewEvent: Sig is the canonical "Name(type,...)" string.
NewEvent(name, inputs) ==
    [Name |-> name,
     Sig |-> name \o "(" \o JoinTypes(inputs) \o ")",
     Inputs |-> inputs]

\* The two event entries of the ERC-20 ABI JSON.
erc20ABIJSON ==
    << [name |-> "Transfer",
        inputs |-> << Arg("from", AddressT, TRUE),
                      Arg("to", AddressT, TRUE),
                      Arg("value", Uint256T, FALSE) >>],
       [name |-> "Approval",
        inputs |-> << Arg("owner", AddressT, TRUE),
                      Arg("spender", AddressT, TRUE),
                      Arg("value", Uint256T, FALSE) >>] >>

\* abi.JSON: the events of the JSON, keyed by name.
ABIJSON(json) ==
    [Events |-> [n \in {json[i].name : i \in DOMAIN json} |->
                   LET i == CHOOSE j \in DOMAIN json : json[j].name = n
                   IN  NewEvent(n, json[i].inputs)]]

TransferSigHash ==
    <<221, 242, 82, 173, 27, 226, 200, 155, 105, 194, 176, 104, 252, 55, 141,
      170, 149, 43, 167, 241, 99, 196, 161, 22, 40, 245, 90, 77, 245, 35, 179,
      239>>

ApprovalSigHash ==
    <<140, 91, 225, 229, 235, 236, 125, 91, 209, 79, 113, 66, 125, 30, 132,
      243, 221, 3, 20, 192, 247, 178, 41, 30, 91, 32, 10, 200, 199, 195, 185,
      37>>

MoveSigHash ==
    <<103, 12, 162, 40, 221, 182, 222, 223, 233, 238, 111, 239, 31, 120, 95,
      240, 91, 74, 13, 124, 77, 108, 169, 167, 106, 175, 242, 85, 109, 220,
      122, 175>>

FlagSigHash ==
    <<3, 26, 89, 182, 107, 210, 59, 109, 22, 209, 186, 86, 11, 217, 139, 106,
      7, 20, 47, 167, 124, 102, 42, 20, 252, 44, 142, 188, 20, 169, 96, 207>>

QuadSigHash ==
    <<113, 12, 75, 168, 27, 50, 225, 218, 67, 239, 95, 182, 184, 167, 126, 9,
      185, 156, 127, 50, 15, 232, 111, 172, 116, 106, 213, 93, 64, 132, 58,
      253>>

\* crypto.Keccak256Hash on the signature strings the model uses (the real
\* digests).
KeccakTable ==
    ("Transfer(address,address,uint256)" :> TransferSigHash)
    @@ ("Approval(address,address,uint256)" :> ApprovalSigHash)
    @@ ("Move(uint256,address,bytes,int256)" :> MoveSigHash)
    @@ ("Flag(bool,string,uint256)" :> FlagSigHash)
    @@ ("Quad(address,address,address,address)" :> QuadSigHash)

Keccak256Hash(s) == KeccakTable[s]

----------------------------------------------------------------------------
(* abi.ABI.Unpack, as go-ethereum implements it for an event name *)

\* Go's b[from:to] on a byte string (offsets from 0).
Slice(b, from, to) == SubSeq(b, from + 1, to)

\* Arguments.NonIndexed
NonIndexed(inputs) == SelectSeq(inputs, LAMBDA a : ~a.Indexed)

Ok(v) == [err |-> "", value |-> v]

Err(e) == [err |-> e, value |-> <<>>]

\* Two's complement of a 32-byte word, as a magnitude.
RECURSIVE AddOne(_)
AddOne(b) ==
    IF b = <<>> THEN <<>>
    ELSE IF b[Len(b)] = 255
         THEN AddOne(SubSeq(b, 1, Len(b) - 1)) \o <<0>>
         ELSE SubSeq(b, 1, Len(b) - 1) \o <<b[Len(b)] + 1>>

Negated(word) == SetBytes(AddOne([i \in 1..Len(word) |-> 255 - word[i]]))

\* abi.ReadInteger for uint256 / int256: a *big.Int, int256 read as two's
\* complement.
ReadInteger(t, word) ==
    IF t.T = "UintTy" \/ word[1] < 128
    THEN Ok(<<"*big.Int", FALSE, SetBytes(word)>>)
    ELSE Ok(<<"*big.Int", TRUE, Negated(word)>>)

\* abi.readBool: only the words 0 and 1 are booleans.
readBool(word) ==
    IF \E i \in 1..31 : word[i] # 0 THEN Err("abi: improperly encoded boolean value")
    ELSE IF word[32] = 0 THEN Ok(<<"bool", FALSE>>)
    ELSE IF word[32] = 1 THEN Ok(<<"bool", TRUE>>)
    ELSE Err("abi: improperly encoded boolean value")

\* Type.requiresLengthPrefix
requiresLengthPrefix(t) == t.T \in {"StringTy", "BytesTy", "SliceTy"}

\* abi.lengthPrefixPointsTo: the head word at index is an offset; the word
\* there is the length of the region that follows it.
lengthPrefixPointsTo(index, output) ==
    LET off == SetBytes(Slice(output, index, index + 32))
        offsetEnd == SmallValue(off) + 32
        lengthBig == SetBytes(Slice(output, offsetEnd - 32, offsetEnd))
    IN  IF ~IsSmall(off) \/ offsetEnd > Len(output)
        THEN [err |-> "abi: cannot marshal in to go slice: offset would go over slice boundary",
              start |-> 0, length |-> 0]
        ELSE IF ~IsSmall(lengthBig) \/ offsetEnd + SmallValue(lengthBig) > Len(output)
        THEN [err |-> "abi: cannot marshal in to go type: length insufficient",
              start |-> 0, length |-> 0]
        ELSE [err |-> "", start |-> offsetEnd, length |-> SmallValue(lengthBig)]

\* abi.toGoType: the value of type t whose head word starts at byte index.
toGoType(index, t, output) ==
    IF index + 32 > Len(output)
    THEN Err("abi: cannot marshal in to go type: length insufficient")
    ELSE LET returnOutput == Slice(output, index, index + 32)
             p == lengthPrefixPointsTo(index, output)
         IN  IF requiresLengthPrefix(t) /\ p.err # "" THEN Err(p.err)
             ELSE CASE t.T \in {"IntTy", "UintTy"} -> ReadInteger(t, returnOutput)
                    [] t.T = "BoolTy" -> readBool(returnOutput)
                    [] t.T = "AddressTy" ->
                         Ok(<<"common.Address", BytesToAddress(returnOutput)>>)
                    [] t.T = "BytesTy" ->
                         Ok(<<"[]byte", Slice(output, p.start, p.start + p.length)>>)
                    [] t.T = "StringTy" ->
                         Ok(<<"string", Slice(output, p.start, p.start + p.length)>>)
                    [] t.T = "FixedBytesTy" ->
                         Ok(<<"[N]byte", Slice(returnOutput, 0, t.Size)>>)
                    [] OTHER -> Err("abi: unknown type")

\* Arguments.UnpackValues: one head word per non-indexed argument, in order.
RECURSIVE UnpackValues(_, _, _, _)
UnpackValues(args, k, data, acc) ==
    IF k > Len(args) THEN [err |-> "", values |-> acc]
    ELSE LET r == toGoType((k - 1) * 32, args[k].Type, data)
         IN  IF r.err # "" THEN [err |-> r.err, values |-> <<>>]
             ELSE UnpackValues(args, k + 1, data, Append(acc, r.value))

\* ABI.Unpack(name, data) -> Arguments.Unpack(data) for the event name.
Unpack(parsedABI, name, data) ==
    LET args == NonIndexed(parsedABI.Events[name].Inputs)
    IN  IF Len(data) = 0
        THEN IF Len(args) # 0
             THEN [err |-> "abi: attempting to unmarshall an empty string while arguments are expected",
                   values |-> <<>>]
             ELSE [err |-> "", values |-> <<>>]
        ELSE UnpackValues(args, 1, data, <<>>)

----------------------------------------------------------------------------
(* parseLogEvent *)

\* Variant: the hashes are compared on their first four bytes only.
EventLoopPrefix(eventTopic, parsedABI) ==
    LET m == {name \in DOMAIN parsedABI.Events :
                 SubSeq(Keccak256Hash(parsedABI.Events[name].Sig), 1, 4)
                    = SubSeq(eventTopic, 1, 4)}
    IN  IF m = {} THEN {""} ELSE m

\* The lookup loop over parsedABI.Events: the first event, in map iteration
\* order, whose signature hash equals Topics[0]; "" when none does.
EventLoop(eventTopic, parsedABI) ==
    LET m == {name \in DOMAIN parsedABI.Events :
                 Keccak256Hash(parsedABI.Events[name].Sig) = eventTopic}
    IN  IF m = {} THEN {""} ELSE m

\* Variant: a topic of any other type is cut to its low-order 20 bytes.
DecodeTopicCut(topic, t) ==
    CASE t.T = "AddressTy" -> Hex(BytesToAddress(topic))
      [] t.T \in {"IntTy", "UintTy"} -> BigIntString(SetBytes(topic))
      [] t.T = "BoolTy" -> (topic[32] # 0)
      [] t.T \in {"BytesTy", "FixedBytesTy"} -> Hex(topic)
      [] OTHER -> <<Hex(BytesToAddress(topic)), "(raw)">>

\* Variant: a topic of a signed type is read as two's complement.
DecodeTopicSigned(topic, t) ==
    CASE t.T = "AddressTy" -> Hex(BytesToAddress(topic))
      [] t.T = "UintTy" -> BigIntString(SetBytes(topic))
      [] t.T = "IntTy" ->
           IF topic[1] < 128 THEN BigIntString(SetBytes(topic))
           ELSE <<-1>> \o BigIntString(Negated(topic))
      [] t.T = "BoolTy" -> (topic[32] # 0)
      [] t.T \in {"BytesTy", "FixedBytesTy"} -> Hex(topic)
      [] OTHER -> <<Hex(topic), "(raw)">>

\* The switch on input.Type.T for an indexed parameter.
DecodeTopic(topic, t) ==
    CASE t.T = "AddressTy" -> Hex(BytesToAddress(topic))
      [] t.T \in {"IntTy", "UintTy"} -> BigIntString(SetBytes(topic))
      [] t.T = "BoolTy" -> (topic[32] # 0)
      [] t.T \in {"BytesTy", "FixedBytesTy"} -> Hex(topic)
      [] OTHER -> <<Hex(topic), "(raw)">>

\* Variant: every parameter declared before position i is counted.
IndexedBeforeAll(inputs, i) == i - 1

\* Number of indexed parameters declared before position i (from 1).
IndexedBefore(inputs, i) == Cardinality({j \in 1..(i - 1) : inputs[j].Indexed})

\* The loop over eventSig.Inputs that prints the indexed parameters.
RECURSIVE IndexedLines(_, _, _)
IndexedLines(vLog, inputs, i) ==
    IF i > Len(inputs) THEN <<>>
    ELSE LET input == inputs[i]
             topicIndex == 1 + IndexedBefore(inputs, i)
         IN  IF ~input.Indexed \/ topicIndex >= Len(vLog.Topics)
             THEN IndexedLines(vLog, inputs, i + 1)
             ELSE << <<"indexed", i, input.Name, input.Type.String,
                       DecodeTopic(vLog.Topics[topicIndex + 1], input.Type)>> >>
                  \o IndexedLines(vLog, inputs, i + 1)

\* The type switch that formats a decoded value (-1 stands for the minus
\* sign).
FormatValue(v) ==
    CASE v[1] = "*big.Int" ->
           IF v[2] THEN <<-1>> \o BigIntString(v[3]) ELSE BigIntString(v[3])
      [] v[1] = "common.Address" -> Hex(v[2])
      [] v[1] = "[]byte" -> Hex(v[2])
      [] OTHER -> v

\* The loop that prints the decoded values against the non-indexed inputs.
RECURSIVE ValueLines(_, _, _, _)
ValueLines(inputs, values, i, nonIndexedIdx) ==
    IF i > Len(inputs) THEN <<>>
    ELSE IF ~inputs[i].Indexed /\ nonIndexedIdx < Len(values)
    THEN << <<"data", i, inputs[i].Name, inputs[i].Type.String,
              FormatValue(values[nonIndexedIdx + 1])>> >>
         \o ValueLines(inputs, values, i + 1, nonIndexedIdx + 1)
    ELSE ValueLines(inputs, values, i + 1, nonIndexedIdx)

\* Variant: the decoded values are paired with the inputs by position in the
\* declaration, indexed inputs included.
DataLinesByPosition(vLog, abi, eventName) ==
    LET inputs == abi.Events[eventName].Inputs
        u == Unpack(abi, eventName, vLog.Data)
    IN  IF Len(vLog.Data) > 0
        THEN << <<"Non-Indexed Parameters (from Data):">> >>
             \o (IF Len(NonIndexed(inputs)) > 0
                 THEN IF u.err # ""
                      THEN << <<"Error decoding data", u.err>> >>
                      ELSE ValueLines([j \in DOMAIN inputs |->
                                         [inputs[j] EXCEPT !.Indexed = FALSE]],
                                      u.values, 1, 0)
                 ELSE <<>>)
        ELSE << <<"Non-Indexed Parameters: None">> >>

\* Step 4: the non-indexed parameters, from vLog.Data.
DataLines(vLog, parsedABI, eventName) ==
    LET inputs == parsedABI.Events[eventName].Inputs
        u == Unpack(parsedABI, eventName, vLog.Data)
    IN  IF Len(vLog.Data) > 0
        THEN << <<"Non-Indexed Parameters (from Data):">> >>
             \o (IF Len(NonIndexed(inputs)) > 0
                 THEN IF u.err # ""
                      THEN << <<"Error decoding data", u.err>> >>
                      ELSE ValueLines(inputs, u.values, 1, 0)
                 ELSE <<>>)
        ELSE << <<"Non-Indexed Parameters: None">> >>

\* The output for a record once the lookup loop has left eventName.
ParseWith(vLog, parsedABI, eventName, now) ==
    IF eventName = ""
    THEN << <<"Unknown Event", now, vLog.BlockNumber, Hex(vLog.TxHash),
              Hex(vLog.Topics[1])>> >>
    ELSE << <<"rule">>,
            <<"Event", now, eventName>>,
            <<"Block Number", vLog.BlockNumber>>,
            <<"Tx Hash", Hex(vLog.TxHash)>>,
            <<"Log Index", vLog.Index>>,
            <<"Contract", Hex(vLog.Address)>>,
            <<"Topics Count", Len(vLog.Topics)>>,
            <<"Indexed Parameters (from Topics):">> >>
         \o IndexedLines(vLog, parsedABI.Events[eventName].Inputs, 1)
         \o DataLines(vLog, parsedABI, eventName)
         \o << <<"rule">> >>

\* Variant: a record of an unknown event is passed over without output.
parseLogEventSkipUnknown(vLog, parsedABI, now) ==
    IF Len(vLog.Topics) = 0 THEN {<<>>}
    ELSE {IF eventName = "" THEN <<>>
          ELSE ParseWith(vLog, parsedABI, eventName, now) :
             eventName \in EventLoop(vLog.Topics[1], parsedABI)}

\* parseLogEvent: the possible outputs for a record (one per outcome of the
\* lookup loop); nothing is printed for a record without topics.
parseLogEvent(vLog, parsedABI, now) ==
    IF Len(vLog.Topics) = 0 THEN {<<>>}
    ELSE {ParseWith(vLog, parsedABI, eventName, now) :
             eventName \in EventLoop(vLog.Topics[1], parsedABI)}

----------------------------------------------------------------------------
(* Records the node can push *)

Contract == Fill(AddressLength, 170)

AddrA == Fill(AddressLength, 17)

AddrB == Fill(AddressLength, 34)

\* An address / a small number as a 32-byte word.
AddressWord(a) == Zeros(HashLength - AddressLength) \o a

NumberWord(n) == Zeros(HashLength - 2) \o <<n \div 256, n % 256>>

\* A digest that differs from Transfer's in its last byte only.
NearTransferHash == [TransferSigHash EXCEPT ![HashLength] = 0]

\* types.Log: logs of one block share the transaction here.
MkLog(topics, data, block, index) ==
    [Address |-> Contract, Topics |-> topics, Data |-> data,
     BlockNumber |-> block, TxHash |-> Fill(HashLength, block),
     Index |-> index]

TransferLog ==
    MkLog(<<TransferSigHash, AddressWord(AddrA), AddressWord(AddrB)>>,
          NumberWord(1000), 100, 0)

ApprovalLog ==
    MkLog(<<ApprovalSigHash, AddressWord(AddrA), AddressWord(AddrB)>>,
          NumberWord(7), 100, 1)

UnknownLog == MkLog(<<NearTransferHash, AddressWord(AddrA)>>, NumberWord(1), 101, 0)

NoTopicsLog == MkLog(<<>>, NumberWord(1), 102, 0)

ShortDataLog ==
    MkLog(<<TransferSigHash, AddressWord(AddrA), AddressWord(AddrB)>>,
          Zeros(HashLength - 1), 103, 0)

EmptyDataLog ==
    MkLog(<<TransferSigHash, AddressWord(AddrA), AddressWord(AddrB)>>,
          <<>>, 104, 0)

FewTopicsLog == MkLog(<<ApprovalSigHash, AddressWord(AddrA)>>, NumberWord(1), 105, 0)

Logs ==
    {TransferLog, ApprovalLog, UnknownLog, NoTopicsLog, ShortDataLog,
     EmptyDataLog, FewTopicsLog}

Signals == {"interrupt", "terminated"}

----------------------------------------------------------------------------
(* main: the subscription and the select loop *)

parsedABI == ABIJSON(erc20ABIJSON)

\* Capacity of sigCh.
SigChCap == 1

\* Lines kept on an output stream.
Emit(out, lines) == IF recording THEN out \o lines ELSE out

\* Variant: a receive that takes the newest element.
RecvNewest(ch) == ch[Len(ch)]

\* A receive from a channel takes the oldest element.
Recv(ch) == Head(ch)

Init ==
    /\ pc = "idle"
    /\ clientOpen = FALSE
    /\ subActive = FALSE
    /\ ctxDone = FALSE
    /\ sigCh = <<>>
    /\ subErrCh = <<>>
    /\ logsCh = <<>>
    /\ arrived = <<>>
    /\ stdout = <<>>
    /\ stderr = <<>>
    /\ clock = 0
    /\ recording = TRUE
    /\ script = <<>>
    /\ NoBlockOps
    /\ NoLookup

\* main up to the loop: dial, parse the ABI, subscribe, register the signals.
Start ==
    /\ pc = "idle"
    /\ pc' = "running"
    /\ clientOpen' = TRUE
    /\ subActive' = TRUE
    /\ stdout' = Emit(stdout, << <<"Subscribed to logs of contract", Hex(Contract)>>,
                                <<"Listening for events...">> >>)
    /\ UNCHANGED <<ctxDone, sigCh, subErrCh, logsCh, arrived, stderr, clock,
                   recording, script>>
    /\ UNCHANGED blockOps
    /\ UNCHANGED lookup

\* One of the log.Fatal exits before the loop: the process ends at once.
StartFail ==
    /\ pc = "idle"
    /\ \E reason \in {"missing --contract flag", "ETH_WS_URL or ETH_RPC_URL must be set",
                      "failed to connect to Ethereum node", "failed to parse ABI",
                      "failed to subscribe logs"} :
          stderr' = Emit(stderr, << <<"fatal", reason>> >>)
    /\ pc' = "fatal"
    /\ UNCHANGED <<clientOpen, subActive, ctxDone, sigCh, subErrCh, logsCh,
                   arrived, stdout, clock, recording, script>>
    /\ UNCHANGED blockOps
    /\ UNCHANGED lookup

\* Variant: main returns without the deferred client.Close().
ReturnNoClose ==
    /\ pc' = "done"
    /\ UNCHANGED <<clientOpen, subActive>>
    /\ ctxDone' = TRUE

\* The deferred calls that run when main returns: client.Close(), which
\* ends the subscription with the connection, then cancel().
Return ==
    /\ pc' = "done"
    /\ clientOpen' = FALSE
    /\ subActive' = FALSE
    /\ ctxDone' = TRUE

\* Variant: a decode error ends the process (log.Fatalf).
SelectLogFatal ==
    /\ pc = "running"
    /\ logsCh # <<>>
    /\ \E out \in parseLogEvent(Recv(logsCh), parsedABI, clock) :
          /\ stdout' = Emit(stdout, out)
          /\ pc' = IF \E i \in DOMAIN out : out[i][1] = "Error decoding data"
                   THEN "fatal" ELSE pc
    /\ logsCh' = Tail(logsCh)
    /\ UNCHANGED <<clientOpen, subActive, ctxDone, sigCh, subErrCh,
                   arrived, stderr, clock, recording, script>>
    /\ UNCHANGED blockOps
    /\ UNCHANGED lookup

\* case vLog := <-logsCh
SelectLog ==
    /\ pc = "running"
    /\ logsCh # <<>>
    /\ \E out \in parseLogEvent(Recv(logsCh), parsedABI, clock) :
          stdout' = Emit(stdout, out)
    /\ logsCh' = Tail(logsCh)
    /\ UNCHANGED <<pc, clientOpen, subActive, ctxDone, sigCh, subErrCh,
                   arrived, stderr, clock, recording, script>>
    /\ UNCHANGED blockOps
    /\ UNCHANGED lookup

\* Variant: the case leaves the select only (break), the loop goes on.
SelectSubErrBreak ==
    /\ pc = "running"
    /\ subErrCh # <<>>
    /\ stderr' = Emit(stderr, << <<"subscription error", Recv(subErrCh)>> >>)
    /\ subErrCh' = Tail(subErrCh)
    /\ UNCHANGED <<pc, clientOpen, subActive, ctxDone, sigCh, logsCh, arrived,
                   stdout, clock, recording, script>>
    /\ UNCHANGED blockOps
    /\ UNCHANGED lookup

\* case err := <-sub.Err()
SelectSubErr ==
    /\ pc = "running"
    /\ subErrCh # <<>>
    /\ stderr' = Emit(stderr, << <<"subscription error", Recv(subErrCh)>> >>)
    /\ subErrCh' = Tail(subErrCh)
    /\ Return
    /\ UNCHANGED <<sigCh, logsCh, arrived, stdout, clock, recording, script>>
    /\ UNCHANGED blockOps
    /\ UNCHANGED lookup

\* Variant: the signal is taken only when no record is waiting.
SelectSignalAfterLogs ==
    /\ pc = "running"
    /\ sigCh # <<>>
    /\ logsCh = <<>>
    /\ stdout' = Emit(stdout, << <<"received signal, shutting down...", Recv(sigCh)>> >>)
    /\ sigCh' = Tail(sigCh)
    /\ Return
    /\ UNCHANGED <<subErrCh, logsCh, arrived, stderr, clock, recording, script>>
    /\ UNCHANGED blockOps
    /\ UNCHANGED lookup

\* Variant: the remaining records are decoded before the loop ends.
SelectSignalDrain ==
    /\ pc = "running"
    /\ sigCh # <<>>
    /\ stdout' = Emit(stdout,
          (IF logsCh = <<>> THEN <<>>
           ELSE CHOOSE out \in parseLogEvent(Recv(logsCh), parsedABI, clock) : TRUE)
          \o << <<"received signal, shutting down...", Recv(sigCh)>> >>)
    /\ logsCh' = IF logsCh = <<>> THEN logsCh ELSE Tail(logsCh)
    /\ sigCh' = Tail(sigCh)
    /\ Return
    /\ UNCHANGED <<subErrCh, arrived, stderr, clock, recording, script>>
    /\ UNCHANGED blockOps
    /\ UNCHANGED lookup

\* case sig := <-sigCh
SelectSignal ==
    /\ pc = "running"
    /\ sigCh # <<>>
    /\ stdout' = Emit(stdout, << <<"received signal, shutting down...", Recv(sigCh)>> >>)
    /\ sigCh' = Tail(sigCh)
    /\ Return
    /\ UNCHANGED <<subErrCh, logsCh, arrived, stderr, clock, recording, script>>
    /\ UNCHANGED blockOps
    /\ UNCHANGED lookup

\* Variant: the case leaves the select only (break), the loop goes on.
SelectCtxDoneBreak ==
    /\ pc = "running"
    /\ ctxDone
    /\ stdout' = Emit(stdout, << <<"context cancelled, exiting...">> >>)
    /\ UNCHANGED <<pc, clientOpen, subActive, ctxDone, sigCh, subErrCh, logsCh,
                   arrived, stderr, clock, recording, script>>
    /\ UNCHANGED blockOps
    /\ UNCHANGED lookup

\* case <-ctx.Done()
SelectCtxDone ==
    /\ pc = "running"
    /\ ctxDone
    /\ stdout' = Emit(stdout, << <<"context cancelled, exiting...">> >>)
    /\ Return
    /\ UNCHANGED <<sigCh, subErrCh, logsCh, arrived, stderr, clock, recording,
                   script>>
    /\ UNCHANGED blockOps
    /\ UNCHANGED lookup

----------------------------------------------------------------------------
(* The environment: the node, the operating system, the clock *)

\* The node pushes a record to the subscription.
Arrive ==
    /\ subActive
    /\ Len(logsCh) < MaxPending
    /\ recording => Len(arrived) < MaxRecords
    /\ \E vLog \in Logs :
          /\ logsCh' = Append(logsCh, vLog)
          /\ arrived' = IF recording THEN Append(arrived, vLog) ELSE arrived
    /\ UNCHANGED <<pc, clientOpen, subActive, ctxDone, sigCh, subErrCh, stdout,
                   stderr, clock, recording, script>>
    /\ UNCHANGED blockOps
    /\ UNCHANGED lookup

\* The subscription breaks: its error is put on sub.Err().
SubFail ==
    /\ subActive
    /\ subErrCh = <<>>
    /\ subErrCh' = <<"websocket: close 1006 (abnormal closure)">>
    /\ UNCHANGED <<pc, clientOpen, subActive, ctxDone, sigCh, logsCh, arrived,
                   stdout, stderr, clock, recording, script>>
    /\ UNCHANGED blockOps
    /\ UNCHANGED lookup

\* SIGINT or SIGTERM is delivered; signal.Notify drops it when sigCh is full.
Signal ==
    /\ pc = "running"
    /\ Len(sigCh) < SigChCap
    /\ \E sig \in Signals : sigCh' = Append(sigCh, sig)
    /\ UNCHANGED <<pc, clientOpen, subActive, ctxDone, subErrCh, logsCh,
                   arrived, stdout, stderr, clock, recording, script>>
    /\ UNCHANGED blockOps
    /\ UNCHANGED lookup

\* cancel() of the context of main is called while the loop runs.
Cancel ==
    /\ pc = "running"
    /\ ~ctxDone
    /\ ctxDone' = TRUE
    /\ UNCHANGED <<pc, clientOpen, subActive, sigCh, subErrCh, logsCh, arrived,
                   stdout, stderr, clock, recording, script>>
    /\ UNCHANGED blockOps
    /\ UNCHANGED lookup

\* A second passes.
Tick ==
    /\ pc = "running"
    /\ clock < MaxTime
    /\ clock' = clock + 1
    /\ UNCHANGED <<pc, clientOpen, subActive, ctxDone, sigCh, subErrCh, logsCh,
                   arrived, stdout, stderr, recording, script>>
    /\ UNCHANGED blockOps
    /\ UNCHANGED lookup

Next ==
    \/ Start
    \/ StartFail
    \/ SelectLog
    \/ SelectSubErr
    \/ SelectSignal
    \/ SelectCtxDone
    \/ Arrive
    \/ SubFail
    \/ Signal
    \/ Cancel
    \/ Tick

Spec == Init /\ [][Next]_vars

\* A scripted run: the records of the script are sent one by one on the
\* unbuffered logsCh, each send completing before the next item is played;
\* the last item is the cancellation (a signal or cancel()).
ScriptLength == ScriptNamed + ScriptUnknown

Scripts ==
    {[i \in 1..(ScriptLength + 1) |->
         IF i <= ScriptLength THEN <<"log", logs[i]>> ELSE stop] :
       logs \in {f \in [1..ScriptLength -> {TransferLog, ApprovalLog, UnknownLog}] :
                   Cardinality({i \in 1..ScriptLength : f[i] = UnknownLog})
                      = ScriptUnknown},
       stop \in {<<"signal", "interrupt">>, <<"cancel", "">>}}

ScriptInit ==
    /\ pc = "idle"
    /\ clientOpen = FALSE
    /\ subActive = FALSE
    /\ ctxDone = FALSE
    /\ sigCh = <<>>
    /\ subErrCh = <<>>
    /\ logsCh = <<>>
    /\ arrived = <<>>
    /\ stdout = <<>>
    /\ stderr = <<>>
    /\ clock = 0
    /\ recording = TRUE
    /\ script \in Scripts
    /\ NoBlockOps
    /\ NoLookup

ScriptPlay ==
    /\ pc = "running"
    /\ script # <<>>
    /\ logsCh = <<>>
    /\ LET item == Head(script)
       IN  /\ logsCh' = IF item[1] = "log" THEN <<item[2]>> ELSE logsCh
           /\ arrived' = IF item[1] = "log" THEN Append(arrived, item[2]) ELSE arrived
           /\ sigCh' = IF item[1] = "signal" THEN Append(sigCh, item[2]) ELSE sigCh
           /\ ctxDone' = IF item[1] = "cancel" THEN TRUE ELSE ctxDone
    /\ script' = Tail(script)
    /\ UNCHANGED <<pc, clientOpen, subActive, subErrCh, stdout, stderr, clock,
                   recording>>
    /\ UNCHANGED blockOps
    /\ UNCHANGED lookup

ScriptNext ==
    \/ Start
    \/ ScriptPlay
    \/ SelectLog
    \/ SelectSignal
    \/ SelectCtxDone

ScriptSpec == ScriptInit /\ [][ScriptNext]_vars

\* The loop under an endless stream: the histories are not retained, so the
\* node can push records without end.
LiveInit ==
    /\ pc = "idle"
    /\ clientOpen = FALSE
    /\ subActive = FALSE
    /\ ctxDone = FALSE
    /\ sigCh = <<>>
    /\ subErrCh = <<>>
    /\ logsCh = <<>>
    /\ arrived = <<>>
    /\ stdout = <<>>
    /\ stderr = <<>>
    /\ clock = 0
    /\ recording = FALSE
    /\ script = <<>>
    /\ NoBlockOps
    /\ NoLookup

\* select picks among the ready cases uniformly at random: a case that stays
\* ready is eventually picked.
LiveSpec ==
    /\ LiveInit
    /\ [][Next]_vars
    /\ WF_vars(SelectSubErr)
    /\ WF_vars(SelectSignal)
    /\ WF_vars(SelectCtxDone)

----------------------------------------------------------------------------
(* block-ops: the inputs, the clock, the node *)

\* context.WithTimeout(context.Background(), 30*time.Second), in ms.
CtxTimeout == 30000

\* context.WithTimeout(ctx, 10*time.Second), in ms.
ReqTimeout == 10000

\* 500 * time.Millisecond
BaseBackoff == 500

\* fetchBlockWithRetry(ctx, client, num, 3)
NumberRetries == 3

\* fetchBlockWithRetry(ctx, client, blockNumber, 2)
RangeRetries == 2

\* The values given to -number, to -range-start and -range-end, and to
\* -rate-limit (milliseconds).
BlockNumbers == {0, 1}

\* A uint64 is held as the signed reading of its 64 bits (two's complement):
\* the largest height, 2^64 - 1, is -1, and adding 1 to it gives 0 as num++
\* does.  Sums and differences are the plain ones; the order is LeU.
MaxUint64 == -1

\* a <= b on uint64.
LeU(a, b) == IF (a < 0) = (b < 0) THEN a <= b ELSE a >= 0

Heights == (0..MaxHeight) \cup {MaxUint64}

\* The number of heights a scan is followed for.
MaxVisits == MaxHeight

RateLimits == {200, 1000}

Flags == [number : BlockNumbers, rangeStart : Heights, rangeEnd : Heights,
          rateLimit : RateLimits]

\* The time main has spent when the flags are parsed: the dial, the chain
\* id and the latest block, all under ctx.
StartupTimes == {100, 29745}

\* What the node does with one request: it sends the block, it sends an
\* error, or it sends nothing.
Replies == {"block", "error", "none"}

\* The time the node takes to reply, and the time printBlockInfo takes.
Latency == 50

PrintTime == 10

Min(a, b) == IF a <= b THEN a ELSE b

Max(a, b) == IF a >= b THEN a ELSE b

\* ctx.Done() is closed at time t: the deadline of ctx has passed, or
\* cancel() was called.
Done(t) == ctxDone \/ t >= CtxTimeout

\* The deadline of reqCtx, a child of ctx made at time t: a child context
\* ends no later than its parent.
WithTimeout(t, timeout) == Min(t + timeout, CtxTimeout)

\* client.BlockByNumber(reqCtx, blockNumber) called at time t.
BlockByNumber(t, deadline, blockNumber, reply) ==
    IF reply # "none" /\ t + Latency < deadline
    THEN [end |-> t + Latency,
          block |-> IF reply = "block" THEN <<"block", blockNumber>> ELSE <<>>,
          err |-> IF reply = "block" THEN "" ELSE "not found"]
    ELSE [end |-> Max(t, deadline), block |-> <<>>,
          err |-> "context deadline exceeded"]

\* time.NewTicker(d) at time t.  The channel of a ticker holds one tick:
\* a tick that finds it full is dropped.  last is the instant of the
\* latest receive; a tick due at an instant precedes the program's step
\* at that instant.
NewTicker(t, d) == [start |-> t, d |-> d, last |-> t]

\* The tick the next receive gets: the first one due after the latest
\* receive.
NextTick(ticker) ==
    ticker.start + ((ticker.last - ticker.start) \div ticker.d + 1) * ticker.d

----------------------------------------------------------------------------
(* block-ops: main, fetchBlockWithRetry, fetchBlockRange *)

\* The variables of the subscription example, which block-ops leaves alone.
subscription == <<sigCh, subErrCh, logsCh, arrived, clock, recording, script>>

BlockOpsInit ==
    /\ pc = "idle"
    /\ clientOpen = FALSE
    /\ subActive = FALSE
    /\ ctxDone = FALSE
    /\ sigCh = <<>>
    /\ subErrCh = <<>>
    /\ logsCh = <<>>
    /\ arrived = <<>>
    /\ stdout = <<>>
    /\ stderr = <<>>
    /\ clock = 0
    /\ recording = TRUE
    /\ script = <<>>
    /\ nowMs = 0
    /\ flags \in Flags
    /\ retry = NoCall
    /\ ret = NoRet
    /\ scan = NoScan
    /\ trace = <<>>
    /\ NoLookup

\* The frame of a call fetchBlockWithRetry(ctx, client, blockNumber,
\* maxRetries), at the head of its loop.
Call(blockNumber, maxRetries, caller) ==
    [blockNumber |-> blockNumber, maxRetries |-> maxRetries, i |-> 0,
     lastErr |-> "", caller |-> caller]

\* main up to the single-block query: the context, the dial, the chain id,
\* the latest block, the flags.
BlockOpsMain ==
    /\ pc = "idle"
    /\ clientOpen' = TRUE
    /\ \E t \in StartupTimes : nowMs' = t
    /\ stdout' = Emit(stdout, << <<"chain id">>, <<"latest block">>,
                                <<"--blockNumberFlag", flags.number>> >>)
    /\ IF flags.number > 0
       THEN /\ retry' = Call(flags.number, NumberRetries, "number")
            /\ pc' = "retry"
       ELSE /\ retry' = retry
            /\ pc' = "range"
    /\ UNCHANGED <<subActive, ctxDone, stderr, flags, ret, scan, trace>>
    /\ UNCHANGED subscription
    /\ UNCHANGED lookup

\* One of the log.Fatal exits of main before the flags are parsed.
BlockOpsMainFail ==
    /\ pc = "idle"
    /\ \E reason \in {"ETH_RPC_URL is not set",
                      "failed to connect to Ethereum node",
                      "failed to get latest block"} :
          stderr' = Emit(stderr, << <<"fatal", reason>> >>)
    /\ pc' = "fatal"
    /\ UNCHANGED <<clientOpen, subActive, ctxDone, stdout>>
    /\ UNCHANGED blockOps
    /\ UNCHANGED subscription
    /\ UNCHANGED lookup

\* Variant: the same pause after every failed attempt.
BackoffFlat(i) == BaseBackoff

\* backoff := time.Duration(i+1) * 500 * time.Millisecond
Backoff(i) == (i + 1) * BaseBackoff

\* Where fetchBlockWithRetry returns to.
ReturnSite(caller) == IF caller = "number" THEN "numberResult" ELSE "rangeResult"

\* Variant: fetchBlockWithRetry makes one more pass when the error is a
\* timeout.
FetchAttemptExtra ==
    /\ pc = "retry"
    /\ \E reply \in Replies :
          LET deadline == WithTimeout(nowMs, ReqTimeout)
              r == BlockByNumber(nowMs, deadline, retry.blockNumber, reply)
              attempt == <<"attempt", retry.blockNumber, retry.i, nowMs,
                           deadline, r.end, r.err, retry.caller>>
              backoff == Backoff(retry.i)
          IN  IF r.err = ""
              THEN /\ ret' = [block |-> r.block, err |-> <<>>]
                   /\ pc' = ReturnSite(retry.caller)
                   /\ retry' = NoCall
                   /\ nowMs' = r.end
                   /\ trace' = Append(trace, attempt)
                   /\ stderr' = stderr
              ELSE IF retry.i < retry.maxRetries - 1
                      \/ (retry.i < retry.maxRetries /\ reply = "none")
                   THEN /\ retry' = [retry EXCEPT !.i = @ + 1, !.lastErr = r.err]
                        /\ nowMs' = r.end + backoff
                        /\ trace' = trace \o <<attempt,
                              <<"sleep", retry.blockNumber, retry.i, backoff>> >>
                        /\ stderr' = Emit(stderr,
                              << <<"[WARN] failed to fetch block", retry.blockNumber,
                                   retry.i + 1, retry.maxRetries, backoff, r.err>> >>)
                        /\ UNCHANGED <<pc, ret>>
                   ELSE /\ ret' = [block |-> <<>>,
                                   err |-> <<"failed after retries",
                                             retry.maxRetries, r.err>>]
                        /\ pc' = ReturnSite(retry.caller)
                        /\ retry' = NoCall
                        /\ nowMs' = r.end
                        /\ trace' = Append(trace, attempt)
                        /\ stderr' = stderr
    /\ UNCHANGED <<clientOpen, subActive, ctxDone, stdout, flags, scan>>
    /\ UNCHANGED subscription
    /\ UNCHANGED lookup

\* fetchBlockWithRetry: one pass of its loop.  The attempt runs under a
\* fresh reqCtx; on success the block is returned; on failure the error is
\* kept, and the function sleeps and goes round again unless this was the
\* last pass, after which it returns the error.
FetchAttempt ==
    /\ pc = "retry"
    /\ \E reply \in Replies :
          LET deadline == WithTimeout(nowMs, ReqTimeout)
              r == BlockByNumber(nowMs, deadline, retry.blockNumber, reply)
              attempt == <<"attempt", retry.blockNumber, retry.i, nowMs,
                           deadline, r.end, r.err, retry.caller>>
              backoff == Backoff(retry.i)
          IN  IF r.err = ""
              THEN /\ ret' = [block |-> r.block, err |-> <<>>]
                   /\ pc' = ReturnSite(retry.caller)
                   /\ retry' = NoCall
                   /\ nowMs' = r.end
                   /\ trace' = Append(trace, attempt)
                   /\ stderr' = stderr
              ELSE IF retry.i < retry.maxRetries - 1
                   THEN /\ retry' = [retry EXCEPT !.i = @ + 1, !.lastErr = r.err]
                        /\ nowMs' = r.end + backoff
                        /\ trace' = trace \o <<attempt,
                              <<"sleep", retry.blockNumber, retry.i, backoff>> >>
                        /\ stderr' = Emit(stderr,
                              << <<"[WARN] failed to fetch block", retry.blockNumber,
                                   retry.i + 1, retry.maxRetries, backoff, r.err>> >>)
                        /\ UNCHANGED <<pc, ret>>
                   ELSE /\ ret' = [block |-> <<>>,
                                   err |-> <<"failed after retries",
                                             retry.maxRetries, r.err>>]
                        /\ pc' = ReturnSite(retry.caller)
                        /\ retry' = NoCall
                        /\ nowMs' = r.end
                        /\ trace' = Append(trace, attempt)
                        /\ stderr' = stderr
    /\ UNCHANGED <<clientOpen, subActive, ctxDone, stdout, flags, scan>>
    /\ UNCHANGED subscription
    /\ UNCHANGED lookup

\* main, the single-block query returned: an error ends the process, a
\* block is printed.
NumberResult ==
    /\ pc = "numberResult"
    /\ IF ret.err # <<>>
       THEN /\ stderr' = Emit(stderr, << <<"fatal", "failed to get block",
                                           flags.number, ret.err>> >>)
            /\ pc' = "fatal"
            /\ UNCHANGED <<stdout, nowMs>>
       ELSE /\ stdout' = Emit(stdout, << <<"Block", flags.number, ret.block>> >>)
            /\ nowMs' = nowMs + PrintTime
            /\ pc' = "range"
            /\ stderr' = stderr
    /\ ret' = NoRet
    /\ UNCHANGED <<clientOpen, subActive, ctxDone, flags, retry, scan, trace>>
    /\ UNCHANGED subscription
    /\ UNCHANGED lookup

\* main: no range is queried unless both range flags are above 0; main
\* returns and its deferred calls run.
RangeNone ==
    /\ pc = "range"
    /\ ~(flags.rangeStart # 0 /\ flags.rangeEnd # 0)
    /\ Return
    /\ UNCHANGED <<stdout, stderr>>
    /\ UNCHANGED blockOps
    /\ UNCHANGED subscription
    /\ UNCHANGED lookup

\* main: log.Fatal("range-start must be <= range-end")
RangeInvalid ==
    /\ pc = "range"
    /\ flags.rangeStart # 0 /\ flags.rangeEnd # 0
    /\ ~LeU(flags.rangeStart, flags.rangeEnd)
    /\ stderr' = Emit(stderr, << <<"fatal", "range-start must be <= range-end">> >>)
    /\ pc' = "fatal"
    /\ UNCHANGED <<clientOpen, subActive, ctxDone, stdout>>
    /\ UNCHANGED blockOps
    /\ UNCHANGED subscription
    /\ UNCHANGED lookup

\* main calls fetchBlockRange, which prints its heading, zeroes its
\* counters and starts the ticker.
RangeEnter ==
    /\ pc = "range"
    /\ flags.rangeStart # 0 /\ flags.rangeEnd # 0
    /\ LeU(flags.rangeStart, flags.rangeEnd)
    /\ stdout' = Emit(stdout,
          << <<"=== Fetching Block Range ===", flags.rangeStart, flags.rangeEnd>>,
             <<"Rate Limit", flags.rateLimit>> >>)
    /\ scan' = [start |-> flags.rangeStart, end |-> flags.rangeEnd,
                rateLimit |-> flags.rateLimit, num |-> flags.rangeStart,
                successCount |-> 0, skipCount |-> 0,
                ticker |-> NewTicker(nowMs, flags.rateLimit)]
    /\ pc' = "loop"
    /\ UNCHANGED <<clientOpen, subActive, ctxDone, stderr, nowMs, flags, retry,
                   ret, trace>>
    /\ UNCHANGED subscription
    /\ UNCHANGED lookup

\* fetchBlockRange, the loop goes on: <-ticker.C, then the call of
\* fetchBlockWithRetry for the height.
WaitTick ==
    /\ pc = "loop"
    /\ LeU(scan.num, scan.end)
    /\ Cardinality({k \in DOMAIN trace : trace[k][1] = "tick"}) < MaxVisits
    /\ LET tick == NextTick(scan.ticker)
           at == Max(nowMs, tick)
       IN  /\ nowMs' = at
           /\ scan' = [scan EXCEPT !.ticker.last = at]
           /\ trace' = Append(trace, <<"tick", scan.num, tick, at>>)
    /\ retry' = Call(scan.num, RangeRetries, "range")
    /\ pc' = "retry"
    /\ UNCHANGED <<clientOpen, subActive, ctxDone, stdout, stderr, flags, ret>>
    /\ UNCHANGED subscription
    /\ UNCHANGED lookup

\* Variant: a height whose retries are exhausted ends the scan.
SkipHalt ==
    /\ pc = "rangeResult"
    /\ ret.err # <<>>
    /\ stderr' = Emit(stderr, << <<"[ERROR] Block", scan.num, ret.err>> >>)
    /\ scan' = [scan EXCEPT !.skipCount = @ + 1]
    /\ ret' = NoRet
    /\ Return
    /\ UNCHANGED <<stdout, nowMs, flags, retry, trace>>
    /\ UNCHANGED subscription
    /\ UNCHANGED lookup

\* fetchBlockRange, the call failed: the error is logged, the height is
\* counted as skipped, the loop continues with the next height.
Skip ==
    /\ pc = "rangeResult"
    /\ ret.err # <<>>
    /\ stderr' = Emit(stderr, << <<"[ERROR] Block", scan.num, ret.err>> >>)
    /\ scan' = [scan EXCEPT !.skipCount = @ + 1, !.num = @ + 1]
    /\ ret' = NoRet
    /\ pc' = "loop"
    /\ UNCHANGED <<clientOpen, subActive, ctxDone, stdout, nowMs, flags, retry,
                   trace>>
    /\ UNCHANGED subscription
    /\ UNCHANGED lookup

\* Variant: a block fetched when the context has ended is printed but not
\* counted.
SuccessUncounted ==
    /\ pc = "rangeResult"
    /\ ret.err = <<>>
    /\ stdout' = Emit(stdout, << <<"Block", scan.num, ret.block>> >>)
    /\ nowMs' = nowMs + PrintTime
    /\ ret' = NoRet
    /\ IF Done(nowMs + PrintTime)
       THEN /\ stderr' = Emit(stderr,
                  << <<"[INFO] Context cancelled, stopping at block", scan.num>> >>)
            /\ scan' = scan
            /\ Return
       ELSE /\ scan' = [scan EXCEPT !.successCount = @ + 1, !.num = @ + 1]
            /\ pc' = "loop"
            /\ UNCHANGED <<clientOpen, subActive, ctxDone, stderr>>
    /\ UNCHANGED <<flags, retry, trace>>
    /\ UNCHANGED subscription
    /\ UNCHANGED lookup

\* fetchBlockRange, the call returned a block: it is counted and printed,
\* then ctx.Done() is polled; when it is closed the function logs and
\* returns (and main with it), otherwise the loop continues.
Success ==
    /\ pc = "rangeResult"
    /\ ret.err = <<>>
    /\ stdout' = Emit(stdout, << <<"Block", scan.num, ret.block>> >>)
    /\ nowMs' = nowMs + PrintTime
    /\ ret' = NoRet
    /\ IF Done(nowMs + PrintTime)
       THEN /\ stderr' = Emit(stderr,
                  << <<"[INFO] Context cancelled, stopping at block", scan.num>> >>)
            /\ scan' = [scan EXCEPT !.successCount = @ + 1]
            /\ Return
       ELSE /\ scan' = [scan EXCEPT !.successCount = @ + 1, !.num = @ + 1]
            /\ pc' = "loop"
            /\ UNCHANGED <<clientOpen, subActive, ctxDone, stderr>>
    /\ UNCHANGED <<flags, retry, trace>>
    /\ UNCHANGED subscription
    /\ UNCHANGED lookup

\* fetchBlockRange, the loop is over: the summary is printed, the function
\* returns and main with it.
Summary ==
    /\ pc = "loop"
    /\ ~LeU(scan.num, scan.end)
    /\ stdout' = Emit(stdout,
          << <<"=== Summary ===">>,
             <<"Success", scan.successCount>>,
             <<"Skipped", scan.skipCount>>,
             <<"Total", scan.end - scan.start + 1>> >>)
    /\ Return
    /\ UNCHANGED stderr
    /\ UNCHANGED blockOps
    /\ UNCHANGED subscription
    /\ UNCHANGED lookup

BlockOpsNext ==
    \/ BlockOpsMain
    \/ BlockOpsMainFail
    \/ FetchAttempt
    \/ NumberResult
    \/ RangeNone
    \/ RangeInvalid
    \/ RangeEnter
    \/ WaitTick
    \/ Skip
    \/ Success
    \/ Summary

BlockOpsSpec == BlockOpsInit /\ [][BlockOpsNext]_vars

----------------------------------------------------------------------------
(* The lookup of an event by topic word 0, on its own *)

\* The schemas looked up in: the two event entries of the ERC-20 ABI JSON
\* in either order, and each of them alone.
Schemas ==
    {<<erc20ABIJSON[1], erc20ABIJSON[2]>>, <<erc20ABIJSON[2], erc20ABIJSON[1]>>,
     <<erc20ABIJSON[1]>>, <<erc20ABIJSON[2]>>}

\* The digest h with its byte k changed.
Altered(h, k) == [h EXCEPT ![k] = (@ + 1) % 256]

\* The digests looked up: the two signature hashes, every digest that
\* differs from one of them in a single byte, and the zero digest.
Digests ==
    {TransferSigHash, ApprovalSigHash, Zeros(HashLength)}
    \cup {Altered(h, k) : h \in {TransferSigHash, ApprovalSigHash},
                          k \in 1..HashLength}

LookupInit ==
    /\ pc = "idle"
    /\ clientOpen = FALSE
    /\ subActive = FALSE
    /\ ctxDone = FALSE
    /\ sigCh = <<>>
    /\ subErrCh = <<>>
    /\ logsCh = <<>>
    /\ arrived = <<>>
    /\ stdout = <<>>
    /\ stderr = <<>>
    /\ clock = 0
    /\ recording = TRUE
    /\ script = <<>>
    /\ NoBlockOps
    /\ regSchema \in Schemas
    /\ regDigest \in Digests
    /\ regMatch = <<>>
    /\ registry = <<>>
    /\ decoded = <<>>

\* The lookup loop of parseLogEvent runs on the digest.
Lookup ==
    /\ regSchema # <<>>
    /\ regMatch = <<>>
    /\ \E eventName \in EventLoop(regDigest, ABIJSON(regSchema)) :
          regMatch' = <<eventName>>
    /\ UNCHANGED <<pc, clientOpen, subActive, ctxDone, stdout, stderr, regSchema,
                   regDigest, registry, decoded>>
    /\ UNCHANGED subscription
    /\ UNCHANGED blockOps

LookupNext == Lookup

LookupSpec == LookupInit /\ [][LookupNext]_vars

----------------------------------------------------------------------------
(* abi.JSON and parseLogEvent on their own, over other schemas *)

\* A type name abi.NewType does not know.
FooT == [T |-> "", Size |-> 0, String |-> "foo"]

\* Event entries beside those of ERC-20: non-indexed parameters declared
\* before and between indexed ones; indexed parameters of the types bool,
\* string and uint256; four indexed parameters; a parameter of unknown type.
MoveJSON ==
    [name |-> "Move",
     inputs |-> << Arg("amount", Uint256T, FALSE),
                   Arg("who", AddressT, TRUE),
                   Arg("note", BytesT, FALSE),
                   Arg("delta", Int256T, TRUE) >>]

FlagJSON ==
    [name |-> "Flag",
     inputs |-> << Arg("on", BoolT, TRUE),
                   Arg("label", StringT, TRUE),
                   Arg("n", Uint256T, TRUE) >>]

QuadJSON ==
    [name |-> "Quad",
     inputs |-> << Arg("a", AddressT, TRUE),
                   Arg("b", AddressT, TRUE),
                   Arg("c", AddressT, TRUE),
                   Arg("d", AddressT, TRUE) >>]

OddJSON == [name |-> "Odd", inputs |-> << Arg("x", FooT, FALSE) >>]

\* The schemas handed to abi.JSON.
MixedSchema == erc20ABIJSON \o <<MoveJSON, FlagJSON>>

QuadSchema == <<QuadJSON>>

OddSchema == <<OddJSON>>

DecodeSchemas == {MixedSchema, QuadSchema, OddSchema}

\* The error of abi.JSON: the only check on an event's inputs is that
\* abi.NewType knows each type name.
JSONError(json) ==
    IF \E i \in DOMAIN json : \E j \in DOMAIN json[i].inputs :
          json[i].inputs[j].Type.T = ""
    THEN "unsupported arg type"
    ELSE ""

\* A log carries at most four topic words (LOG0..LOG4).
MaxTopics == 4

\* Topic words: a padded address, an address under non-zero padding, the
\* word of all ones, the numbers 1 and 0.
DirtyWord == Fill(HashLength - AddressLength, 1) \o AddrB

Words ==
    {AddressWord(AddrA), DirtyWord, Fill(HashLength, 255), NumberWord(1),
     Zeros(HashLength)}

\* The ABI encoding of (uint256 amount, bytes note): the amount word, the
\* offset word of the note, then the length word and the padded bytes.
Word32(m) == Zeros(HashLength - Len(m)) \o m

PadRight(b) ==
    b \o Zeros((HashLength - (Len(b) % HashLength)) % HashLength)

MovePayload(amount, note) ==
    Word32(amount) \o NumberWord(2 * HashLength)
       \o NumberWord(Len(note)) \o PadRight(note)

Amounts == {<<1>>, <<3, 232>>, Fill(HashLength, 255)}

Notes == {<<>>, <<1, 2, 3>>, Fill(HashLength + 1, 9)}

\* The payloads a record of each event is given.
Payloads(event) ==
    IF event = "Move"
    THEN {MovePayload(a, n) : a \in Amounts, n \in Notes}
         \cup {<<>>, Zeros(HashLength - 1)}
    ELSE IF event = "Transfer" THEN {NumberWord(1000)}
    ELSE {<<>>}

\* The records decoded against a schema: the digest of one of its events
\* followed by up to three topic words, with one of the event's payloads.
TopicLists ==
    UNION {[1..k -> Words] : k \in 0..(MaxTopics - 1)}

\* The program reads no record when abi.JSON fails.
DecodeLogs(json) ==
    IF JSONError(json) # "" THEN {TransferLog}
    ELSE UNION {
           {MkLog(<<Keccak256Hash(NewEvent(json[i].name, json[i].inputs).Sig)>>
                     \o ws, data, 200, 0) :
              ws \in TopicLists, data \in Payloads(json[i].name)} :
           i \in {j \in DOMAIN json : json[j].name # "Approval"}}

\* The record is queued twice; arrived keeps what was queued.
DecodeInit ==
    /\ pc = "idle"
    /\ clientOpen = FALSE
    /\ subActive = FALSE
    /\ ctxDone = FALSE
    /\ sigCh = <<>>
    /\ subErrCh = <<>>
    /\ stdout = <<>>
    /\ stderr = <<>>
    /\ clock = 0
    /\ recording = TRUE
    /\ script = <<>>
    /\ NoBlockOps
    /\ regSchema \in DecodeSchemas
    /\ regDigest = <<>>
    /\ regMatch = <<>>
    /\ registry = <<>>
    /\ decoded = <<>>
    /\ \E vLog \in DecodeLogs(regSchema) : logsCh = <<vLog, vLog>>
    /\ arrived = logsCh

\* abi.JSON returns the registry and main goes on to its loop.
Build ==
    /\ pc = "idle"
    /\ regSchema # <<>>
    /\ JSONError(regSchema) = ""
    /\ registry' = ABIJSON(regSchema)
    /\ pc' = "running"
    /\ UNCHANGED <<clientOpen, subActive, ctxDone, stdout, stderr, regSchema,
                   regDigest, regMatch, decoded>>
    /\ UNCHANGED subscription
    /\ UNCHANGED blockOps

\* abi.JSON returns an error: log.Fatalf.
BuildFail ==
    /\ pc = "idle"
    /\ regSchema # <<>>
    /\ JSONError(regSchema) # ""
    /\ stderr' = stderr \o << <<"fatal", "failed to parse ABI">> >>
    /\ pc' = "fatal"
    /\ UNCHANGED <<clientOpen, subActive, ctxDone, stdout, regSchema,
                   regDigest, regMatch, registry, decoded>>
    /\ UNCHANGED subscription
    /\ UNCHANGED blockOps

\* Variant: a call drops the event it matched from the registry.
DecodeForgetting ==
    /\ pc = "running"
    /\ logsCh # <<>>
    /\ \E t \in clock..MaxTime :
         \E out \in parseLogEvent(Head(logsCh), registry, t) :
            /\ clock' = t
            /\ stdout' = stdout \o out
            /\ decoded' = Append(decoded, out)
            /\ registry' =
                  [Events |->
                     [n \in {e \in DOMAIN registry.Events :
                                Len(out) < 2 \/ out[2] # <<"Event", t, e>>} |->
                        registry.Events[n]]]
    /\ logsCh' = Tail(logsCh)
    /\ UNCHANGED <<pc, clientOpen, subActive, ctxDone, stderr, regSchema,
                   regDigest, regMatch>>
    /\ UNCHANGED <<sigCh, subErrCh, arrived, recording, script>>
    /\ UNCHANGED blockOps

\* The loop takes the record at the head of the queue and calls
\* parseLogEvent on it.
Decode ==
    /\ pc = "running"
    /\ logsCh # <<>>
    /\ \E t \in clock..MaxTime :
         \E out \in parseLogEvent(Head(logsCh), registry, t) :
            /\ clock' = t
            /\ stdout' = stdout \o out
            /\ decoded' = Append(decoded, out)
    /\ logsCh' = Tail(logsCh)
    /\ UNCHANGED <<pc, clientOpen, subActive, ctxDone, stderr, regSchema,
                   regDigest, regMatch, registry>>
    /\ UNCHANGED <<sigCh, subErrCh, arrived, recording, script>>
    /\ UNCHANGED blockOps

DecodeNext == Build \/ BuildFail \/ Decode

DecodeSpec == DecodeInit /\ [][DecodeNext]_vars


----------------------------------------------------------------------------
(* The multiplexer's states, and what the output shows *)

\* The state of the multiplexer at each position of main.
State ==
    CASE pc = "idle" -> "Idle"
      [] pc = "running" -> "Running"
      [] pc \in {"done", "fatal"} -> "Terminated"

Has(out, tag) == \E i \in DOMAIN out : out[i][1] = tag

LastTag(out) == IF out = <<>> THEN "" ELSE out[Len(out)][1]

\* The lines parseLogEvent wrote, with the wall-clock time blanked.
IsDecodeLine(line) ==
    line[1] \notin {"Subscribed to logs of contract", "Listening for events...",
                    "received signal, shutting down...",
                    "context cancelled, exiting..."}

Blank(line) ==
    IF line[1] = "Event" THEN <<"Event", 0, line[3]>>
    ELSE IF line[1] = "Unknown Event"
         THEN <<"Unknown Event", 0, line[3], line[4], line[5]>>
         ELSE line

DecodeOutput ==
    LET d == SelectSeq(stdout, IsDecodeLine)
    IN  [i \in DOMAIN d |-> Blank(d[i])]

\* The records the loop has taken from the stream so far.
Taken == SubSeq(arrived, 1, Len(arrived) - Len(logsCh))

RegisteredHashes ==
    {Keccak256Hash(parsedABI.Events[n].Sig) : n \in DOMAIN parsedABI.Events}

Recognized(vLog) ==
    Len(vLog.Topics) > 0 /\ vLog.Topics[1] \in RegisteredHashes

Unrecognized(vLog) ==
    Len(vLog.Topics) > 0 /\ vLog.Topics[1] \notin RegisteredHashes

EventOf(vLog) ==
    parsedABI.Events[CHOOSE n \in DOMAIN parsedABI.Events :
                        Keccak256Hash(parsedABI.Events[n].Sig) = vLog.Topics[1]]

\* The output of one record, taken at time 0.
RECURSIVE OutputOf(_)
OutputOf(logs) ==
    IF logs = <<>> THEN <<>>
    ELSE (CHOOSE out \in parseLogEvent(Head(logs), parsedABI, 0) : TRUE)
         \o OutputOf(Tail(logs))

\* A step of the loop that takes a record from the stream.
TakesRecord == pc = "running" /\ Len(logsCh') < Len(logsCh)

\* The lines a step adds to stdout.
NewLines == SubSeq(stdout', Len(stdout) + 1, Len(stdout'))

CountTag(out, tag) == Cardinality({i \in DOMAIN out : out[i][1] = tag})

----------------------------------------------------------------------------
(* Claims *)

\* C1: while Running, the step that services a subscription error reports
\* it and goes to Terminated at once: it decodes no record, leaves the
\* pending records alone and ends the subscription; and once the error has
\* been reported the loop stays Terminated and nothing more is decoded.
C1_SubErrFatal ==
    /\ [][(pc = "running" /\ stderr' # stderr) =>
            /\ subErrCh # <<>>
            /\ stderr' = Append(stderr, <<"subscription error", Head(subErrCh)>>)
            /\ State' = "Terminated"
            /\ stdout' = stdout
            /\ logsCh' = logsCh
            /\ ~subActive']_vars
    /\ [][Has(stderr, "subscription error") =>
            (stdout' = stdout /\ logsCh' = logsCh /\ ~subActive')]_vars
    /\ [](Has(stderr, "subscription error") => State = "Terminated")

C1_Witness ==
    /\ Has(stderr, "subscription error")
    /\ State = "Terminated"
    /\ logsCh # <<>>
    /\ Taken # <<>>

\* C2 (as stated): once a shutdown signal has arrived while Running, no
\* further record is taken from the stream, even if records are pending.
C2_NoRecordAfterSignalArrived ==
    [][(pc = "running" /\ sigCh # <<>>) => Len(logsCh') >= Len(logsCh)]_vars

\* C2 (amended): the step that services a shutdown signal announces the
\* shutdown and goes from Running to Terminated (there is no separate
\* Draining state), taking no record; once the signal has been serviced
\* nothing more is decoded.  A record pending together with the signal may
\* still be decoded before the signal is serviced.
C2_SignalServicedTerminates ==
    /\ [][(pc = "running" /\ Len(sigCh') < Len(sigCh)) =>
            /\ stdout' = Append(stdout,
                  <<"received signal, shutting down...", Head(sigCh)>>)
            /\ State' = "Terminated"
            /\ logsCh' = logsCh]_vars
    /\ [](Has(stdout, "received signal, shutting down...") =>
            /\ State = "Terminated"
            /\ LastTag(stdout) = "received signal, shutting down...")

C2_Witness ==
    /\ LastTag(stdout) = "received signal, shutting down..."
    /\ State = "Terminated"
    /\ logsCh # <<>>
    /\ Taken # <<>>

\* C3: while Running, the step that services the done context goes directly
\* to Terminated: it decodes no record and no other state lies in between;
\* after it nothing more is written.
C3_CtxDoneDirect ==
    /\ [][(stdout' # stdout /\ LastTag(stdout') = "context cancelled, exiting...") =>
            /\ pc = "running"
            /\ ctxDone
            /\ stdout' = Append(stdout, <<"context cancelled, exiting...">>)
            /\ State' = "Terminated"
            /\ logsCh' = logsCh]_vars
    /\ [](Has(stdout, "context cancelled, exiting...") =>
            /\ State = "Terminated"
            /\ LastTag(stdout) = "context cancelled, exiting...")

C3_Witness ==
    /\ LastTag(stdout) = "context cancelled, exiting..."
    /\ State = "Terminated"
    /\ logsCh # <<>>

\* C4: Terminated is absorbing (no step leaves it or changes anything, so
\* no source is serviced again), and in Terminated the connection and the
\* subscription are released.
C4_TerminatedAbsorbing ==
    /\ [][State = "Terminated" => vars' = vars]_vars
    /\ [](State = "Terminated" => (~subActive /\ ~clientOpen))
    /\ [](pc = "done" => ctxDone)

C4_Witness ==
    /\ pc = "done"
    /\ logsCh # <<>>
    /\ sigCh # <<>>
    /\ subErrCh # <<>>

\* C5: the decode output is the concatenation, in arrival order, of the
\* outputs of the records taken so far: the output of one record is
\* complete before the output of the next begins.
C5_ArrivalOrder == recording => DecodeOutput = OutputOf(Taken)

C5_Witness ==
    /\ Len(Taken) >= 2
    /\ Taken[1] # Taken[2]
    /\ OutputOf(<<Taken[1]>>) # <<>>
    /\ OutputOf(<<Taken[2]>>) # <<>>

\* C8: the step that takes a record whose topic word 0 is no registered
\* signature hash writes the single "Unknown Event" line (time, block
\* number, transaction hash, topic word 0) and leaves the loop Running.
C8_UnknownEventDegrades ==
    [][(TakesRecord /\ Unrecognized(Head(logsCh))) =>
         /\ State' = "Running"
         /\ logsCh' = Tail(logsCh)
         /\ NewLines = << <<"Unknown Event", clock, Head(logsCh).BlockNumber,
                            Hex(Head(logsCh).TxHash),
                            Hex(Head(logsCh).Topics[1])>> >>]_vars

C8_Witness ==
    /\ State = "Running"
    /\ Len(Taken) >= 2
    /\ Unrecognized(Taken[1])
    /\ Recognized(Taken[2])
    /\ stdout[3][1] = "Unknown Event"
    /\ Has(stdout, "Event")

\* C9: the step that takes a recognized record whose non-empty payload is
\* too short for the declared non-indexed parameters reports the decode
\* error once, within that record's output, and leaves the loop Running.
C9_DecodeErrorContinues ==
    [][(/\ TakesRecord
        /\ Recognized(Head(logsCh))
        /\ Len(Head(logsCh).Data) > 0
        /\ Len(Head(logsCh).Data)
             < 32 * Len(NonIndexed(EventOf(Head(logsCh)).Inputs))) =>
         /\ State' = "Running"
         /\ logsCh' = Tail(logsCh)
         /\ CountTag(NewLines, "Error decoding data") = 1
         /\ CountTag(NewLines, "data") = 0
         /\ NewLines[2] = <<"Event", clock, EventOf(Head(logsCh)).Name>>
         /\ NewLines[Len(NewLines)] = <<"rule">>]_vars

C9_Witness ==
    /\ State = "Running"
    /\ Len(Taken) >= 2
    /\ Taken[1] = ShortDataLog
    /\ Taken[2] = TransferLog
    /\ CountTag(stdout, "Error decoding data") = 1
    /\ CountTag(stdout, "data") = 1

\* Number of sources a step of the loop services: a record taken, an error
\* taken, a signal taken, or the exit on the done context.
Serviced ==
    (IF Len(logsCh') < Len(logsCh) THEN 1 ELSE 0)
    + (IF Len(subErrCh') < Len(subErrCh) THEN 1 ELSE 0)
    + (IF Len(sigCh') < Len(sigCh) THEN 1 ELSE 0)
    + (IF /\ pc' # pc
          /\ Len(subErrCh') = Len(subErrCh)
          /\ Len(sigCh') = Len(sigCh)
          /\ ctxDone
       THEN 1 ELSE 0)

\* A step of the loop itself (not of the node, the system or the clock).
LoopStep ==
    /\ pc = "running"
    /\ \/ pc' # pc
       \/ Len(logsCh') < Len(logsCh)
       \/ Len(subErrCh') < Len(subErrCh)
       \/ Len(sigCh') < Len(sigCh)

\* C6: every iteration of the Running loop services exactly one source,
\* taking at most one element from it; and, records arriving without end,
\* a subscription error, a signal or a done context that is ready leads to
\* the loop terminating.
C6_NoStarvation ==
    /\ [][LoopStep =>
            /\ Serviced = 1
            /\ Len(logsCh') >= Len(logsCh) - 1
            /\ (Len(logsCh') < Len(logsCh) => pc' = "running")]_vars
    /\ ((pc = "running" /\ subErrCh # <<>>) ~> (pc = "done"))
    /\ ((pc = "running" /\ sigCh # <<>>) ~> (pc = "done"))
    /\ ((pc = "running" /\ ctxDone) ~> (pc = "done"))

C6_Witness ==
    /\ ~recording
    /\ pc = "done"
    /\ Len(logsCh) = MaxPending
    /\ sigCh = <<>>
    /\ subErrCh = <<>>

\* C7: in a scripted run of ScriptNamed records of registered events and
\* ScriptUnknown records of an unknown event, in any order, followed by a
\* cancellation: when the loop has terminated it has written exactly one
\* result per record, in arrival order (ScriptNamed named, ScriptUnknown
\* unknown), and nothing is left to process; and once the script is played
\* and its records are taken, the only thing the loop can do is exit.
C7_ScriptedRun ==
    /\ pc = "done" =>
          /\ script = <<>>
          /\ logsCh = <<>>
          /\ Len(arrived) = ScriptLength
          /\ CountTag(stdout, "Event") = ScriptNamed
          /\ CountTag(stdout, "Unknown Event") = ScriptUnknown
          /\ DecodeOutput = OutputOf(arrived)
          /\ \A i \in 1..ScriptLength :
                Unrecognized(arrived[i]) <=>
                   SelectSeq(stdout, LAMBDA l : l[1] \in {"Event", "Unknown Event"})[i][1]
                      = "Unknown Event"
    /\ (pc = "running" /\ script = <<>> /\ logsCh = <<>>) =>
          /\ sigCh # <<>> \/ ctxDone
          /\ CountTag(stdout, "Event") + CountTag(stdout, "Unknown Event")
                = ScriptLength

C7_Witness ==
    /\ pc = "done"
    /\ script = <<>>
    /\ Len(arrived) = ScriptLength
    /\ CountTag(stdout, "Unknown Event") = ScriptUnknown
    /\ CountTag(stdout, "Event") = ScriptNamed

\* A payload is malformed for the declared non-indexed parameters when it is
\* shorter than one head word per parameter, or when the offset in the
\* head word of a dynamic parameter points outside the payload.
OffsetOutside(data, args) ==
    \E k \in DOMAIN args :
       /\ requiresLengthPrefix(args[k].Type)
       /\ Len(data) >= 32 * k
       /\ LET off == SetBytes(Slice(data, 32 * (k - 1), 32 * k))
          IN  ~IsSmall(off) \/ SmallValue(off) + 32 > Len(data)

PayloadMalformed(data, args) ==
    Len(data) < 32 * Len(args) \/ OffsetOutside(data, args)

\* C10 (as stated): decoding the payload of a recognized record fails with
\* a reported decode error whenever the payload is malformed for the
\* declared non-indexed parameters, the empty payload included.
C10_MalformedPayloadFails ==
    [][(/\ TakesRecord
        /\ Recognized(Head(logsCh))
        /\ PayloadMalformed(Head(logsCh).Data,
                            NonIndexed(EventOf(Head(logsCh)).Inputs))) =>
         CountTag(NewLines, "Error decoding data") = 1]_vars

\* C11 (as stated): no problem with a single record is dropped silently:
\* every record the loop takes (unrecognized signature, no topic words, too
\* few topic words, undecodable payload included) leaves at least one line
\* on the output.
C11_NoSilentDrop ==
    [][TakesRecord => NewLines # <<>>]_vars

\* The events of the history, by kind.
Ticks == SelectSeq(trace, LAMBDA e : e[1] = "tick")

Attempts == SelectSeq(trace, LAMBDA e : e[1] = "attempt")

Sleeps == SelectSeq(trace, LAMBDA e : e[1] = "sleep")

\* C12 (as stated): a range request with start > end fails with the
\* invalid-range error before anything is done for the range: no scan is
\* set up, no tick is consumed, and main never runs to its normal end.
C12_InvalidRangeRejected ==
    ~LeU(flags.rangeStart, flags.rangeEnd) =>
       /\ scan = NoScan
       /\ Ticks = <<>>
       /\ pc # "done"

\* Every height's fetch waits for a tick first, the first height included,
\* and the heights are visited in ascending order.
GatedAscending ==
    /\ \A k \in DOMAIN Ticks :
          /\ Ticks[k][2] = scan.start + k - 1
          /\ Ticks[k][4] >= Ticks[k][3]
          /\ Ticks[k][3] >= scan.ticker.start + scan.rateLimit
    /\ \A k \in DOMAIN trace :
          trace[k][1] = "attempt" /\ trace[k][3] = 0 /\ trace[k][8] = "range" =>
             /\ k > 1
             /\ trace[k - 1][1] = "tick"
             /\ trace[k - 1][2] = trace[k][2]
             /\ trace[k - 1][4] = trace[k][4]

\* C13 (as stated): every height's fetch is preceded by the wait for one
\* tick, the heights are visited in ascending order, and the ticks that
\* gate two successive heights are exactly rateLimit apart, also after a
\* height whose fetch took longer than rateLimit.
C13_TicksEvenlySpaced ==
    /\ GatedAscending
    /\ \A k \in 1..(Len(Ticks) - 1) :
          Ticks[k + 1][3] = Ticks[k][3] + scan.rateLimit

\* The events a step adds to the history.
NewEvents == SubSeq(trace', Len(trace) + 1, Len(trace'))

\* C14: one height is attempted at most maxRetries times: a pass of the
\* loop of fetchBlockWithRetry is the k-th attempt with k <= maxRetries; a
\* successful attempt ends the call with the block; after the k-th failed
\* attempt with k < maxRetries the call sleeps k * BaseBackoff and goes
\* round again; after the maxRetries-th failed attempt it returns that
\* attempt's error without sleeping.
C14_RetryPolicy ==
    [][pc = "retry" =>
         LET k == retry.i + 1
             a == NewEvents[1]
         IN  /\ k <= retry.maxRetries
             /\ a[1] = "attempt" /\ a[3] = retry.i /\ a[4] = nowMs
             /\ a[7] = "" =>
                   /\ Len(NewEvents) = 1
                   /\ pc' # "retry"
                   /\ ret' = [block |-> <<"block", retry.blockNumber>>, err |-> <<>>]
                   /\ nowMs' = a[6]
             /\ a[7] # "" /\ k < retry.maxRetries =>
                   /\ NewEvents[2] = <<"sleep", retry.blockNumber, retry.i,
                                       k * BaseBackoff>>
                   /\ Len(NewEvents) = 2
                   /\ nowMs' = a[6] + k * BaseBackoff
                   /\ pc' = "retry"
                   /\ retry' = [retry EXCEPT !.i = k, !.lastErr = a[7]]
             /\ a[7] # "" /\ k = retry.maxRetries =>
                   /\ Len(NewEvents) = 1
                   /\ nowMs' = a[6]
                   /\ pc' # "retry"
                   /\ ret' = [block |-> <<>>,
                              err |-> <<"failed after retries", retry.maxRetries,
                                        a[7]>>]]_vars

\* A call with maxRetries = 3 has failed three times, slept twice (500 ms,
\* then 1000 ms) and returned the error.
C14_Witness ==
    /\ pc = "numberResult"
    /\ ret.err # <<>>
    /\ Len(Attempts) = NumberRetries
    /\ Sleeps = << <<"sleep", flags.number, 0, BaseBackoff>>,
                   <<"sleep", flags.number, 1, 2 * BaseBackoff>> >>

\* C15: a height whose retries are exhausted is logged and counted as
\* skipped, and the loop goes on with the next height, which is gated and
\* fetched like any other; nothing in fetchBlockRange ends the process with
\* an error.
C15_SkipContinues ==
    [][/\ pc = "rangeResult" /\ ret.err # <<>> =>
             /\ scan' = [scan EXCEPT !.skipCount = @ + 1, !.num = @ + 1]
             /\ pc' = "loop"
             /\ stderr' = Append(stderr, <<"[ERROR] Block", scan.num, ret.err>>)
             /\ stdout' = stdout
       /\ pc = "loop" /\ LeU(scan.num, scan.end) =>
             /\ pc' = "retry"
             /\ retry'.blockNumber = scan.num
       /\ scan # NoScan => pc' # "fatal"]_vars

\* The first height of a longer range was skipped, every later height was
\* fetched, and the scan ran to its summary.
C15_Witness ==
    /\ pc = "done"
    /\ Has(stdout, "=== Summary ===")
    /\ scan.end > scan.start
    /\ scan.skipCount = 1
    /\ scan.successCount = scan.end - scan.start
    /\ \E k \in DOMAIN stderr :
          stderr[k][1] = "[ERROR] Block" /\ stderr[k][2] = scan.start

\* The scan was stopped by the poll of ctx.Done() after a successful fetch.
Stopped == Has(stderr, "[INFO] Context cancelled, stopping at block")

\* When the scan is stopped it is stopped for good: the function has
\* returned and the height it stopped at is the last one gated.
StoppedAtOnce ==
    Stopped =>
       /\ pc = "done"
       /\ LastTag(stderr) = "[INFO] Context cancelled, stopping at block"
       /\ Ticks[Len(Ticks)][2] = scan.num
       /\ stderr[Len(stderr)][2] = scan.num

\* C16 (as stated): when the poll after a successful fetch finds the
\* cancellation set, the scan stops at once and a partial summary is
\* reported whose counts are those of the heights processed so far.
C16_StoppedReportsSummary ==
    /\ StoppedAtOnce
    /\ Stopped =>
          \E k \in DOMAIN stdout :
             /\ stdout[k] = <<"=== Summary ===">>
             /\ k + 2 <= Len(stdout)
             /\ stdout[k + 1] = <<"Success", scan.successCount>>
             /\ stdout[k + 2] = <<"Skipped", scan.skipCount>>

\* The attempts of the range scan that began when ctx was already done.
LateAttempts ==
    SelectSeq(Attempts, LAMBDA a : a[8] = "range" /\ a[4] >= CtxTimeout)

\* C17 (as stated): once the cancellation is set the scan finishes at most
\* the height in progress, whether it succeeds or is skipped, and attempts
\* no later height: the attempts begun after the cancellation all belong
\* to one height.
C17_NoFetchAfterCancel ==
    \A j, k \in DOMAIN LateAttempts : LateAttempts[j][2] = LateAttempts[k][2]

\* The scan ran through its whole range and printed the summary.
Completed == pc = "done" /\ Has(stdout, "=== Summary ===")

\* The attempts the scan made for height h, and the heights that failed on
\* every attempt.
RangeAttempts(h) == SelectSeq(Attempts, LAMBDA a : a[8] = "range" /\ a[2] = h)

Failed(h) == \A k \in DOMAIN RangeAttempts(h) : RangeAttempts(h)[k][7] # ""

AlwaysFailing == {h \in scan.start..scan.end : Failed(h)}

\* The three counts of the summary are those of a range of N heights of
\* which the heights of F failed.
SummaryCounts(N, F) ==
    \E k \in DOMAIN stdout :
       /\ stdout[k] = <<"=== Summary ===">>
       /\ k + 3 = Len(stdout)
       /\ stdout[k + 1] = <<"Success", N - Cardinality(F)>>
       /\ stdout[k + 2] = <<"Skipped", Cardinality(F)>>
       /\ stdout[k + 3] = <<"Total", N>>

TimeOn(h) ==
    LET a == RangeAttempts(h)
    IN  IF a = <<>> THEN 0 ELSE a[Len(a)][6] - a[1][4]

\* C19 (as stated): every attempt runs under a fresh deadline of the
\* per-attempt timeout, whatever time earlier attempts took and whatever
\* the shared deadline of ctx, so that the time spent on one height is at
\* most maxRetries times the per-attempt timeout.
C19_FreshDeadlinePerAttempt ==
    /\ \A k \in DOMAIN Attempts : Attempts[k][5] = Attempts[k][4] + ReqTimeout
    /\ \A h \in scan.start..scan.end :
          (scan # NoScan /\ pc # "retry") => TimeOn(h) <= RangeRetries * ReqTimeout

\* The lookup loop as written, over one iteration order of the map: the
\* first name in the order whose signature hash is the digest.
RECURSIVE RangeLoop(_, _, _)
RangeLoop(order, digest, abi) ==
    IF order = <<>> THEN ""
    ELSE IF Keccak256Hash(abi.Events[Head(order)].Sig) = digest
         THEN Head(order)
         ELSE RangeLoop(Tail(order), digest, abi)

\* The iteration orders of a map with the given keys.
Orders(keys) ==
    {order \in [1..Cardinality(keys) -> keys] :
        \A j, k \in DOMAIN order : j # k => order[j] # order[k]}

\* Equality on all bytes of a digest.
SameDigest(a, b) ==
    Len(a) = HashLength /\ Len(b) = HashLength
       /\ \A k \in 1..HashLength : a[k] = b[k]

\* C20: the lookup ends with the name of exactly that event whose
\* signature string hashes to the digest, all 32 bytes equal, and with the
\* empty name (not found) when no registered signature hashes to it; every
\* iteration order of the map gives the same result.
C20_MatchExact ==
    regMatch # <<>> =>
       LET abi == ABIJSON(regSchema)
           hits == {n \in DOMAIN abi.Events :
                       SameDigest(Keccak256Hash(abi.Events[n].Sig), regDigest)}
       IN  /\ \A n \in hits :
                 /\ regMatch = <<n>>
                 /\ abi.Events[n].Sig = n \o "(address,address,uint256)"
           /\ hits = {} => regMatch = <<"">>
           /\ \A order \in Orders(DOMAIN abi.Events) :
                 RangeLoop(order, regDigest, abi) = regMatch[1]

\* The hash of Approval(address,address,uint256) was looked up among both
\* events and Approval was found.
C20_Witness ==
    /\ Len(regSchema) = 2
    /\ regDigest = ApprovalSigHash
    /\ regMatch = <<"Approval">>

\* A digest that differs from the hash of Transfer in its last byte only was
\* looked up among both events and nothing was found.
C20_NearMiss ==
    /\ Len(regSchema) = 2
    /\ regDigest = Altered(TransferSigHash, HashLength)
    /\ regMatch = <<"">>

----------------------------------------------------------------------------
(* Decoding on its own: what each call of parseLogEvent printed *)

\* The event a call recognized, by the name on its "Event" line.
DecodedName(out) ==
    IF Len(out) >= 2 /\ out[2][1] = "Event" THEN out[2][3] ELSE ""

\* The inputs the schema declares for the event name.
DeclaredInputs(name) ==
    LET i == CHOOSE j \in DOMAIN regSchema : regSchema[j].name = name
    IN  regSchema[i].inputs

\* The rank of input i among the indexed inputs (1 for the first of them).
IndexedRank(inputs, i) == Cardinality({j \in 1..i : inputs[j].Indexed})

\* Topic word k of a record (word 0 is the signature hash).
TopicWord(vLog, k) == vLog.Topics[k + 1]

HasTopicWord(vLog, k) == k + 1 <= Len(vLog.Topics)

Lines(out) == {out[n] : n \in DOMAIN out}

\* The calls made so far that recognized an event.
Recognizing == {k \in DOMAIN decoded : DecodedName(decoded[k]) # ""}

\* C21: for an indexed parameter of type address whose topic word is in the
\* record, the value printed is the hex of the low-order 20 bytes of the
\* word, whatever the 12 high-order bytes are; a word with non-zero padding
\* is printed like any other.
C21_AddressLowBytes ==
    \A k \in Recognizing :
       LET inputs == DeclaredInputs(DecodedName(decoded[k]))
       IN  \A i \in DOMAIN inputs :
              (/\ inputs[i].Indexed
               /\ inputs[i].Type.String = "address"
               /\ HasTopicWord(arrived[k], IndexedRank(inputs, i)))
              => LET word == TopicWord(arrived[k], IndexedRank(inputs, i))
                 IN  <<"indexed", i, inputs[i].Name, "address",
                       Hex(SubSeq(word, HashLength - AddressLength + 1,
                                  HashLength))>> \in Lines(decoded[k])

\* An address word with non-zero padding was decoded to its low 20 bytes.
C21_Witness ==
    \E k \in Recognizing :
       /\ DecodedName(decoded[k]) = "Move"
       /\ HasTopicWord(arrived[k], 1)
       /\ TopicWord(arrived[k], 1) = DirtyWord
       /\ <<"indexed", 2, "who", "address", Hex(AddrB)>> \in Lines(decoded[k])

\* The magnitude of a small number, as bytes.
RECURSIVE SmallBytes(_)
SmallBytes(n) == IF n = 0 THEN <<>> ELSE SmallBytes(n \div 256) \o <<n % 256>>

\* b * w + carry on a magnitude, from the low-order byte up.
RECURSIVE MulAdd(_, _, _, _, _)
MulAdd(b, i, carry, w, out) ==
    IF i = 0 THEN SmallBytes(carry) \o out
    ELSE LET cur == b[i] * w + carry
         IN  MulAdd(b, i - 1, cur \div 256, w, <<cur % 256>> \o out)

RECURSIVE SmallDecimal(_, _)
SmallDecimal(digits, acc) ==
    IF digits = <<>> THEN acc
    ELSE SmallDecimal(Tail(digits), acc * 10 + Head(digits))

\* The magnitude a string of decimal digits denotes, read six digits at a
\* time from the left.
RECURSIVE ParseDecimal(_, _)
ParseDecimal(digits, acc) ==
    IF digits = <<>> THEN SetBytes(acc)
    ELSE LET n == IF Len(digits) % 6 = 0 THEN 6 ELSE Len(digits) % 6
             chunk == SmallDecimal(SubSeq(digits, 1, n), 0)
         IN  ParseDecimal(SubSeq(digits, n + 1, Len(digits)),
                          MulAdd(acc, Len(acc), chunk, 1000000, <<>>))

IsDecimal(v) == v # <<>> /\ \A n \in DOMAIN v : v[n] \in 0..9

\* The lines a call printed for the indexed inputs of an integer type.
IntegerLines(k) ==
    LET inputs == DeclaredInputs(DecodedName(decoded[k]))
    IN  {line \in Lines(decoded[k]) :
            /\ line[1] = "indexed"
            /\ inputs[line[2]].Type.T \in {"IntTy", "UintTy"}}

\* C22: for an indexed parameter of an unsigned or signed integer type, the
\* number printed is the big-endian unsigned reading of all 32 bytes of the
\* topic word: a non-negative decimal in [0, 2^256 - 1], and at least 2^255
\* when the top bit of the word is set, also for a signed type.
C22_UnsignedMagnitude ==
    \A k \in Recognizing :
       LET inputs == DeclaredInputs(DecodedName(decoded[k]))
       IN  \A line \in IntegerLines(k) :
              LET word == TopicWord(arrived[k], IndexedRank(inputs, line[2]))
                  m == ParseDecimal(line[5], <<>>)
              IN  /\ IsDecimal(line[5])
                  /\ Len(m) <= HashLength
                  /\ Word32(m) = word
                  /\ word[1] >= 128 => (Len(m) = HashLength /\ m[1] >= 128)

\* A word of a signed type with the top bit set was printed as 2^256 - 1.
C22_Witness ==
    \E k \in Recognizing :
       \E line \in IntegerLines(k) :
          /\ line[4] = "int256"
          /\ TopicWord(arrived[k], 2) = Fill(HashLength, 255)
          /\ line[2] = 4
          /\ ParseDecimal(line[5], <<>>) = Fill(HashLength, 255)

\* The type families the switch on an indexed parameter has a case for.
SwitchCases == {"AddressTy", "IntTy", "UintTy", "BoolTy", "BytesTy", "FixedBytesTy"}

\* C23: for an indexed parameter of a type the switch has no case for, the
\* line printed carries the hex of the whole 32-byte topic word with the
\* marker "(raw)"; the call prints its output to the closing rule and the
\* loop is still Running afterwards.
C23_RawFallback ==
    \A k \in Recognizing :
       LET inputs == DeclaredInputs(DecodedName(decoded[k]))
       IN  \A i \in DOMAIN inputs :
              (/\ inputs[i].Indexed
               /\ inputs[i].Type.T \notin SwitchCases
               /\ HasTopicWord(arrived[k], IndexedRank(inputs, i)))
              => /\ <<"indexed", i, inputs[i].Name, inputs[i].Type.String,
                      <<Hex(TopicWord(arrived[k], IndexedRank(inputs, i))),
                        "(raw)">> >> \in Lines(decoded[k])
                 /\ LastTag(decoded[k]) = "rule"
                 /\ State = "Running"

\* The string parameter of a Flag record was printed raw, and the record
\* after it was decoded as well.
C23_Witness ==
    /\ Len(decoded) = 2
    /\ DecodedName(decoded[1]) = "Flag"
    /\ HasTopicWord(arrived[1], 2)
    /\ <<"indexed", 2, "label", "string",
         <<Hex(TopicWord(arrived[1], 2)), "(raw)">> >> \in Lines(decoded[1])
    /\ State = "Running"

\* The lines a call printed for decoded values, in order.
DataLinesOf(out) == SelectSeq(out, LAMBDA line : line[1] = "data")

\* A line shows the integer whose magnitude is m.
ShowsInteger(line, m) ==
    IsDecimal(line[5]) /\ ParseDecimal(line[5], <<>>) = SetBytes(m)

\* C24: a payload that encodes the N non-indexed parameters of the event is
\* printed as exactly N values, the i-th against the i-th non-indexed
\* parameter of the declaration (indexed parameters declared before or
\* between them do not shift the pairing), each the encoded value: for Move
\* the amount against input 1 and the note against input 3, for Transfer
\* the value against input 3.
C24_DataRoundTrip ==
    \A k \in Recognizing :
       LET data == arrived[k].Data
           lines == DataLinesOf(decoded[k])
       IN  /\ DecodedName(decoded[k]) = "Move" =>
                \A a \in Amounts, n \in Notes :
                   data = MovePayload(a, n) =>
                      /\ Len(lines) = 2
                      /\ SubSeq(lines[1], 1, 4) = <<"data", 1, "amount", "uint256">>
                      /\ ShowsInteger(lines[1], a)
                      /\ lines[2] = <<"data", 3, "note", "bytes", Hex(n)>>
           /\ DecodedName(decoded[k]) = "Transfer" =>
                \A a \in {<<3, 232>>} :
                   data = Word32(a) =>
                      /\ Len(lines) = 1
                      /\ SubSeq(lines[1], 1, 4) = <<"data", 3, "value", "uint256">>
                      /\ ShowsInteger(lines[1], a)

\* A Move payload with the largest amount and a note longer than one word
\* was decoded into its two values.
C24_Witness ==
    \E k \in Recognizing :
       /\ DecodedName(decoded[k]) = "Move"
       /\ arrived[k].Data = MovePayload(Fill(HashLength, 255), Fill(HashLength + 1, 9))
       /\ Len(DataLinesOf(decoded[k])) = 2
       /\ DataLinesOf(decoded[k])[2][5] = Hex(Fill(HashLength + 1, 9))

\* The output of a call with the wall-clock time of its header blanked.
Blanked(out) == [n \in DOMAIN out |-> Blank(out[n])]

OverIndexed ==
    \E e \in DOMAIN regSchema :
       Cardinality({j \in DOMAIN regSchema[e].inputs :
                       regSchema[e].inputs[j].Indexed}) >= MaxTopics

\* C26: a schema with an event of four indexed parameters is refused when
\* the registry is built: no registry comes of it, the program does not go
\* on to its loop and no record is decoded against it.
C26_FourIndexedRejected ==
    OverIndexed =>
       /\ registry = <<>>
       /\ pc \in {"idle", "fatal"}
       /\ decoded = <<>>

\* The lines a call printed for indexed inputs, in order.
IndexedLinesOf(out) == SelectSeq(out, LAMBDA line : line[1] = "indexed")

\* The indexed inputs whose topic word the record carries, in declaration
\* order, each with the value of the topic word of its rank.
ExpectedIndexed(vLog, inputs) ==
    LET idx == SelectSeq([i \in 1..Len(inputs) |-> i],
                         LAMBDA i : /\ inputs[i].Indexed
                                    /\ HasTopicWord(vLog, IndexedRank(inputs, i)))
    IN  [n \in DOMAIN idx |->
           <<"indexed", idx[n], inputs[idx[n]].Name, inputs[idx[n]].Type.String,
             DecodeTopic(TopicWord(vLog, IndexedRank(inputs, idx[n])),
                         inputs[idx[n]].Type)>>]

\* C27: for a recognized event the k-th indexed parameter, counted over the
\* indexed parameters only, is printed from topic word k whatever
\* non-indexed parameters are declared before it; word 0 is printed for no
\* parameter; an indexed parameter whose word the record lacks is left out,
\* and the call still goes through the data step to its closing rule.
C27_TopicPositions ==
    \A k \in Recognizing :
       /\ IndexedLinesOf(decoded[k])
            = ExpectedIndexed(arrived[k], DeclaredInputs(DecodedName(decoded[k])))
       /\ \/ Has(decoded[k], "Non-Indexed Parameters (from Data):")
          \/ Has(decoded[k], "Non-Indexed Parameters: None")
       /\ LastTag(decoded[k]) = "rule"

\* A Move record with one topic word after the signature: who is printed
\* from word 1 although amount is declared before it, delta is left out,
\* and both values of the payload are printed.
C27_Witness ==
    \E k \in Recognizing :
       /\ DecodedName(decoded[k]) = "Move"
       /\ Len(arrived[k].Topics) = 2
       /\ TopicWord(arrived[k], 1) = AddressWord(AddrA)
       /\ IndexedLinesOf(decoded[k])
            = << <<"indexed", 2, "who", "address", Hex(AddrA)>> >>
       /\ Len(DataLinesOf(decoded[k])) = 2

----------------------------------------------------------------------------
(* The counters of fetchBlockRange *)

\* The heights the scan has printed a block for, and those it has logged
\* as failed, in order.
PrintedHeights ==
    LET from == CHOOSE k \in DOMAIN stdout :
                   stdout[k][1] = "=== Fetching Block Range ==="
        rest == SubSeq(stdout, from + 1, Len(stdout))
        blocks == SelectSeq(rest, LAMBDA line : line[1] = "Block")
    IN  [k \in DOMAIN blocks |-> blocks[k][2]]

SkippedHeights ==
    LET errors == SelectSeq(stderr, LAMBDA line : line[1] = "[ERROR] Block")
    IN  [k \in DOMAIN errors |-> errors[k][2]]

Injective(q) == \A j, k \in DOMAIN q : q[j] = q[k] => j = k

Range(q) == {q[k] : k \in DOMAIN q}

\* C28: throughout a scan successCount is the number of heights printed
\* and skipCount the number of heights logged as failed, so their sum is
\* the number of heights finished; no height is finished twice or counted
\* on both sides; between two heights the sum is the distance the height
\* counter has moved; and the summary of a completed scan shows a total of
\* end - start + 1 equal to that sum.
C28_CountersPartition ==
    scan # NoScan =>
       /\ scan.successCount = Len(PrintedHeights)
       /\ scan.skipCount = Len(SkippedHeights)
       /\ Injective(PrintedHeights \o SkippedHeights)
       /\ pc = "loop" =>
             scan.successCount + scan.skipCount = scan.num - scan.start
       /\ Completed =>
             /\ scan.successCount + scan.skipCount = scan.end - scan.start + 1
             /\ stdout[Len(stdout)] = <<"Total", scan.successCount + scan.skipCount>>
             /\ Range(PrintedHeights) \cup Range(SkippedHeights)
                  = scan.start..scan.end

\* A scan of three heights ran to its summary with heights on both sides.
C28_Witness ==
    /\ Completed
    /\ scan.end - scan.start + 1 = 3
    /\ scan.successCount = 2
    /\ scan.skipCount = 1
    /\ SkippedHeights = <<scan.start + 1>>

\* C29: for every start <= end, the largest height 2^64 - 1 included, the
\* scan visits the heights of [start, end] and no other, each once: the
\* height counter does not pass end and start again from 0.
C29_ScanStaysInRange ==
    scan # NoScan =>
       /\ \A k \in DOMAIN Ticks :
             /\ LeU(scan.start, Ticks[k][2])
             /\ LeU(Ticks[k][2], scan.end)
       /\ \A j, k \in DOMAIN Ticks : Ticks[j][2] = Ticks[k][2] => j = k

\* A range was asked for: one of the two range flags was given a height.
RangeRequested == flags.rangeStart # 0 \/ flags.rangeEnd # 0

\* C30: when a range with start <= end was asked for and main has returned,
\* the range was scanned or an error was reported; a range whose start (or
\* end) is 0 is not passed over without a fetch and without an error.
C30_RangeScannedOrRefused ==
    (RangeRequested /\ LeU(flags.rangeStart, flags.rangeEnd) /\ pc = "done") =>
       \/ scan # NoScan
       \/ stderr # <<>>

====
